---------------------------- MODULE Spec2Model ----------------------------
(***************************************************************************)
(* State-machine model of the h2coin_vault_share program                   *)
(* (programs/h2coin_vault_share/src): the investment configuration and its *)
(* lifecycle, the 3-of-5 signer check, the investment records, the profit  *)
(* and refund share caches (estimate, then execute) and the vault.         *)
(*                                                                         *)
(* One action models one instruction of lib.rs.  An instruction that      *)
(* returns an error changes no account (the runtime discards the writes of *)
(* a failed instruction); the model records the instruction and its result *)
(* in the variable last, and changes nothing else on an error.             *)
(***************************************************************************)
EXTENDS Integers, Sequences, FiniteSets, TLC

VARIABLES
    info,           \* the InvestmentInfo account (state.rs:49-119)
    records,        \* InvestmentRecord accounts, by record PDA seeds
    profit_cache,   \* ProfitShareCache accounts, by batch_id
    refund_cache,   \* RefundShareCache accounts, by <<batch_id, year_index>>
    vault,          \* the vault PDA: lamports and its two token accounts
    ata,            \* token balances of the recipients' associated accounts
    now,            \* Clock::get()?.unix_timestamp
    last,           \* the most recent instruction and its result
    probe           \* the most recent direct call of verify_signers_3_of_5

vars == <<info, records, profit_cache, refund_cache, vault, ata, now, last, probe>>

----------------------------------------------------------------------------
(* Program constants (constants.rs)                                        *)

MAX_WHITELIST_LEN == 5
MAX_STAGE == 3
MAX_ENTRIES_PER_BATCH == 30
SHARE_CACHE_EXPIRE_SECS == 25 * 86400
START_YEAR_INDEX == 3
MAX_YEAR_INDEX == 9
ESTIMATE_SOL_BASE == 100000
ESTIMATE_SOL_PER_ENTRY == 5000
SECONDS_PER_YEAR == 365 * 24 * 60 * 60

----------------------------------------------------------------------------
(* Bounds of the model                                                     *)

\* u64::MAX, scaled to a width the model checker's integers can hold
MaxU64 == 16777215
\* at most this many deposits of each asset
MaxDeposits == 1

----------------------------------------------------------------------------
(* Keys, accounts and the input sets of the instructions                   *)

ExecKeys == <<"e1", "e2", "e3", "e4", "e5">>
UpdateKeys == <<"u1", "u2", "u3", "u4", "u5">>
WithdrawKeys == <<"x1">>
Wallets == {"w1", "w2"}
Holders == Wallets \cup {"x1", "x2"}

\* an AccountInfo of remaining_accounts: its key and whether it signed
Acc(k) == [key |-> k, is_signer |-> TRUE]
NoSig(k) == [key |-> k, is_signer |-> FALSE]

Range(s) == {s[i] : i \in 1..Len(s)}
Contains(s, k) == \E i \in 1..Len(s) : s[i] = k

----------------------------------------------------------------------------
(* u64 arithmetic                                                          *)

\* a variant that wraps around instead of saturating
saturating_mul_wrapping(a, b) == (a * b) % (MaxU64 + 1)

saturating_mul(a, b) ==
    IF b # 0 /\ a > MaxU64 \div b THEN MaxU64 ELSE a * b

saturating_sub(a, b) == IF a < b THEN 0 ELSE a - b

\* checked_add: the sum, or -1 for None
checked_add(a, b) == IF a > MaxU64 - b THEN -1 ELSE a + b

\* checked_mul: the product, or -1 for None
checked_mul(a, b) == IF b # 0 /\ a > MaxU64 \div b THEN -1 ELSE a * b

----------------------------------------------------------------------------
(* InvestmentInfo: stage ratio validation and the 3-of-5 signer check      *)

RECURSIVE SumSeq(_)
SumSeq(s) == IF s = <<>> THEN 0 ELSE Head(s) + SumSeq(Tail(s))

AllZeroFrom(row, i) == \A j \in i..Len(row) : row[j] = 0

\* The loop over one stage row, from position i (1-based), with the running
\* sum and the started flag: the error of the row, or "Ok".
RECURSIVE StageRowScan(_, _, _, _)
StageRowScan(row, i, sum, started) ==
    IF i > Len(row) THEN (IF sum <= 100 THEN "Ok" ELSE "InvalidStageRatioSum")
    ELSE LET val == row[i]
             st == started \/ val > 0
         IN  IF val > 100 THEN "InvalidStageRatioValue"
             ELSE IF st /\ val = 0 /\ i - 1 < 9
                  THEN IF ~AllZeroFrom(row, i + 1) THEN "NonContiguousStage"
                       ELSE (IF sum <= 100 THEN "Ok" ELSE "InvalidStageRatioSum")
                  ELSE StageRowScan(row, i + 1, sum + val, st)

RECURSIVE StageScan(_, _)
StageScan(stage_ratio, s) ==
    IF s > MAX_STAGE THEN "Ok"
    ELSE IF Len(stage_ratio[s]) # MAX_YEAR_INDEX + 1 THEN "InvalidStageRatioLength"
    ELSE LET r == StageRowScan(stage_ratio[s], 1, 0, FALSE)
         IN  IF r # "Ok" THEN r ELSE StageScan(stage_ratio, s + 1)

validate_stage_ratio(stage_ratio) ==
    LET r == StageScan(stage_ratio, 1)
        any_nonzero == \E s \in 1..MAX_STAGE : \E i \in 1..Len(stage_ratio[s]) :
                           stage_ratio[s][i] > 0
    IN  IF r # "Ok" THEN r
        ELSE IF ~any_nonzero THEN "EmptyStageRatio"
        ELSE "Ok"

extract_signer_keys(infos) ==
    SelectSeq([i \in 1..Len(infos) |-> infos[i]], LAMBDA a : a.is_signer)

\* signer_keys.iter().filter(|key| whitelist.contains(key)).count()
match_count(signer_keys, whitelist) ==
    Cardinality({i \in 1..Len(signer_keys) : Contains(whitelist, signer_keys[i])})

\* a variant that always selects the execute list
QuorumList_execute_only(inf, is_update) == inf.execute_whitelist

QuorumList(inf, is_update) ==
    IF is_update THEN inf.update_whitelist ELSE inf.execute_whitelist

verify_signers_3_of_5(inf, signer_keys, is_update) ==
    LET whitelist == QuorumList(inf, is_update)
    IN  IF Len(whitelist) # MAX_WHITELIST_LEN THEN "WhitelistMustBeFive"
        ELSE IF ~(match_count(signer_keys, whitelist) >= 3) THEN "UnauthorizedSigner"
        ELSE "Ok"

enforce_3_of_5_signers(inf, signer_infos, is_update) ==
    LET signer_accs == extract_signer_keys(signer_infos)
        signer_keys == [i \in 1..Len(signer_accs) |-> signer_accs[i].key]
    IN  verify_signers_3_of_5(inf, signer_keys, is_update)

----------------------------------------------------------------------------
(* Accounts                                                                *)

NoInfo ==
    [initialized |-> FALSE, investment_type |-> "Standard",
     stage_ratio |-> <<>>, end_at |-> 0, investment_upper_limit |-> 0,
     execute_whitelist |-> <<>>, update_whitelist |-> <<>>,
     withdraw_whitelist |-> <<>>, state |-> "Init", is_active |-> FALSE]

\* the instruction just run: its name, its result ("Ok" or the error), and
\* the cache it addressed (batch_id, year_index; 0 when it addressed none)
Result(op, err, b, y) == [op |-> op, err |-> err, batch |-> b, year |-> y]

\* &ctx.remaining_accounts[..3]
FirstThree(ra) == SubSeq(ra, 1, 3)
\* &ctx.remaining_accounts[3..]
AfterThree(ra) == SubSeq(ra, 4, Len(ra))

----------------------------------------------------------------------------
(* Investment info management                                              *)

initialize_investment_info_check(investment_type, stage_ratio, execute_whitelist, update_whitelist) ==
    IF info.initialized THEN "AccountAlreadyInUse"
    ELSE IF Len(execute_whitelist) # 5 THEN "WhitelistMustBeFive"
    ELSE IF Len(update_whitelist) # 5 THEN "WhitelistMustBeFive"
    ELSE validate_stage_ratio(stage_ratio)

\* the account is created with InvestmentInfo::SIZE bytes, which hold three
\* lists of MAX_WHITELIST_LEN keys (and one spare byte): a longer list does
\* not serialize when the instruction exits
InfoFits(execute_whitelist, update_whitelist, withdraw_whitelist) ==
    Len(execute_whitelist) + Len(update_whitelist) + Len(withdraw_whitelist)
        <= 3 * MAX_WHITELIST_LEN

initialize_investment_info(investment_type, stage_ratio, end_at, investment_upper_limit, execute_whitelist, update_whitelist, withdraw_whitelist) ==
    LET chk == initialize_investment_info_check(investment_type, stage_ratio,
                   execute_whitelist, update_whitelist)
        err == IF chk # "Ok" THEN chk
               ELSE IF ~InfoFits(execute_whitelist, update_whitelist, withdraw_whitelist)
                    THEN "AccountDidNotSerialize"
               ELSE "Ok"
    IN  /\ info' = IF err = "Ok"
                   THEN [initialized |-> TRUE,
                         investment_type |-> investment_type,
                         stage_ratio |-> stage_ratio,
                         end_at |-> end_at,
                         investment_upper_limit |-> investment_upper_limit,
                         execute_whitelist |-> execute_whitelist,
                         update_whitelist |-> update_whitelist,
                         withdraw_whitelist |-> withdraw_whitelist,
                         state |-> "Pending",
                         is_active |-> TRUE]
                   ELSE info
        /\ last' = Result("initialize_investment_info", err, 0, 0)
        /\ UNCHANGED <<records, profit_cache, refund_cache, vault, ata, now, probe>>

update_investment_info_check(ra) ==
    IF ~info.initialized THEN "AccountNotInitialized"
    ELSE IF ~info.is_active THEN "InvestmentInfoDeactivated"
    ELSE enforce_3_of_5_signers(info, ra, TRUE)

\* an Option: None is <<>>, Some(v) is <<v>>
None == <<>>
Some(v) == <<v>>

update_investment_info(ra, new_stage_ratio, new_upper_limit) ==
    LET err == update_investment_info_check(ra)
        limit == IF new_upper_limit = None THEN info.investment_upper_limit
                 ELSE new_upper_limit[1]
        ratio == IF new_stage_ratio = None THEN info.stage_ratio
                 ELSE new_stage_ratio[1]
    IN  /\ info' = IF err = "Ok"
                   THEN [info EXCEPT !.investment_upper_limit = limit,
                                     !.stage_ratio = ratio]
                   ELSE info
        /\ last' = Result("update_investment_info", err, 0, 0)
        /\ UNCHANGED <<records, profit_cache, refund_cache, vault, ata, now, probe>>

completed_investment_info_check(ra) ==
    IF ~info.initialized THEN "AccountNotInitialized"
    ELSE IF ~info.is_active THEN "InvestmentInfoDeactivated"
    ELSE IF ~(info.state # "Completed") THEN "InvestmentInfoHasCompleted"
    ELSE enforce_3_of_5_signers(info, ra, TRUE)

completed_investment_info(ra) ==
    LET err == completed_investment_info_check(ra)
    IN  /\ info' = IF err = "Ok" THEN [info EXCEPT !.state = "Completed"]
                   ELSE info
        /\ last' = Result("completed_investment_info", err, 0, 0)
        /\ UNCHANGED <<records, profit_cache, refund_cache, vault, ata, now, probe>>

\* a variant without the Completed requirement
deactivate_investment_info_check_any_state(ra) ==
    IF ~info.initialized THEN "AccountNotInitialized"
    ELSE IF ~info.is_active THEN "InvestmentInfoDeactivated"
    ELSE enforce_3_of_5_signers(info, ra, TRUE)

deactivate_investment_info_check(ra) ==
    IF ~info.initialized THEN "AccountNotInitialized"
    ELSE IF ~info.is_active THEN "InvestmentInfoDeactivated"
    ELSE IF ~(info.state = "Completed") THEN "InvestmentInfoNotCompleted"
    ELSE enforce_3_of_5_signers(info, ra, TRUE)

deactivate_investment_info(ra) ==
    LET err == deactivate_investment_info_check(ra)
    IN  /\ info' = IF err = "Ok" THEN [info EXCEPT !.is_active = FALSE]
                   ELSE info
        /\ last' = Result("deactivate_investment_info", err, 0, 0)
        /\ UNCHANGED <<records, profit_cache, refund_cache, vault, ata, now, probe>>

----------------------------------------------------------------------------
(* Whitelist management                                                    *)

\* whitelist.iter().position(|x| x == &from)
Position(whitelist, k) ==
    CHOOSE i \in 1..Len(whitelist) :
        whitelist[i] = k /\ \A j \in 1..(i - 1) : whitelist[j] # k

\* a variant that does not look for the target in the list
patch_whitelist_check_any_target(ra, is_update) ==
    IF ~info.initialized THEN "AccountNotInitialized"
    ELSE IF ~info.is_active THEN "InvestmentInfoDeactivated"
    ELSE IF Len(ra) < 3 THEN "Panic"
    ELSE LET q == enforce_3_of_5_signers(info, FirstThree(ra), is_update)
             whitelist == QuorumList(info, is_update)
         IN  IF q # "Ok" THEN q
             ELSE IF Len(ra) < 5 THEN "Panic"
             ELSE IF ~(ra[4].key # ra[5].key) THEN "WhitelistAddressExists"
             ELSE IF ~Contains(whitelist, ra[4].key) THEN "WhitelistAddressNotFound"
             ELSE "Ok"

\* the checks shared by patch_execute_whitelist and patch_update_whitelist
patch_whitelist_check(ra, is_update) ==
    IF ~info.initialized THEN "AccountNotInitialized"
    ELSE IF ~info.is_active THEN "InvestmentInfoDeactivated"
    ELSE IF Len(ra) < 3 THEN "Panic"
    ELSE LET q == enforce_3_of_5_signers(info, FirstThree(ra), is_update)
             whitelist == QuorumList(info, is_update)
         IN  IF q # "Ok" THEN q
             ELSE IF Len(ra) < 5 THEN "Panic"
             ELSE IF ~(ra[4].key # ra[5].key) THEN "WhitelistAddressExists"
             ELSE IF ~Contains(whitelist, ra[4].key) THEN "WhitelistAddressNotFound"
             ELSE IF Contains(whitelist, ra[5].key) THEN "WhitelistAddressExists"
             ELSE "Ok"

patch_execute_whitelist_check(ra) == patch_whitelist_check(ra, FALSE)

patch_execute_whitelist(ra) ==
    LET err == patch_execute_whitelist_check(ra)
    IN  /\ info' = IF err = "Ok"
                   THEN [info EXCEPT !.execute_whitelist[
                             Position(info.execute_whitelist, ra[4].key)] = ra[5].key]
                   ELSE info
        /\ last' = Result("patch_execute_whitelist", err, 0, 0)
        /\ UNCHANGED <<records, profit_cache, refund_cache, vault, ata, now, probe>>

patch_update_whitelist_check(ra) == patch_whitelist_check(ra, TRUE)

patch_update_whitelist(ra) ==
    LET err == patch_update_whitelist_check(ra)
    IN  /\ info' = IF err = "Ok"
                   THEN [info EXCEPT !.update_whitelist[
                             Position(info.update_whitelist, ra[4].key)] = ra[5].key]
                   ELSE info
        /\ last' = Result("patch_update_whitelist", err, 0, 0)
        /\ UNCHANGED <<records, profit_cache, refund_cache, vault, ata, now, probe>>

patch_withdraw_whitelist_check(ra) ==
    IF ~info.initialized THEN "AccountNotInitialized"
    ELSE IF ~info.is_active THEN "InvestmentInfoDeactivated"
    ELSE IF Len(ra) < 3 THEN "Panic"
    ELSE LET q == enforce_3_of_5_signers(info, FirstThree(ra), FALSE)
             wallet_infos == AfterThree(ra)
         IN  IF q # "Ok" THEN q
             ELSE IF ~(Len(wallet_infos) # 0 /\ Len(wallet_infos) <= MAX_WHITELIST_LEN)
                  THEN "WhitelistLengthInvalid"
             ELSE "Ok"

patch_withdraw_whitelist(ra) ==
    LET err == patch_withdraw_whitelist_check(ra)
        wallet_infos == AfterThree(ra)
        new_wallets == [i \in 1..Len(wallet_infos) |-> wallet_infos[i].key]
    IN  /\ info' = IF err = "Ok"
                   THEN [info EXCEPT !.withdraw_whitelist = new_wallets]
                   ELSE info
        /\ last' = Result("patch_withdraw_whitelist", err, 0, 0)
        /\ UNCHANGED <<records, profit_cache, refund_cache, vault, ata, now, probe>>

----------------------------------------------------------------------------
(* Investment record management                                            *)

\* the seeds of a record PDA (context.rs:417-424), for the one investment
RecordPda(batch_id, record_id, account_id) == <<batch_id, record_id, account_id>>

\* a variant without the not-yet-Completed requirement
add_investment_record_check_any_state(ra, batch_id, record_id, account_id) ==
    IF ~info.initialized THEN "AccountNotInitialized"
    ELSE IF RecordPda(batch_id, record_id, account_id) \in DOMAIN records
         THEN "AccountAlreadyInUse"
    ELSE IF ~info.is_active THEN "InvestmentInfoDeactivated"
    ELSE enforce_3_of_5_signers(info, ra, TRUE)

add_investment_record_check(ra, batch_id, record_id, account_id) ==
    IF ~info.initialized THEN "AccountNotInitialized"
    ELSE IF RecordPda(batch_id, record_id, account_id) \in DOMAIN records
         THEN "AccountAlreadyInUse"
    ELSE IF ~info.is_active THEN "InvestmentInfoDeactivated"
    ELSE IF ~(info.state # "Completed") THEN "InvestmentInfoHasCompleted"
    ELSE enforce_3_of_5_signers(info, ra, TRUE)

add_investment_record(ra, batch_id, record_id, account_id, wallet, amount_usdt, amount_hcoin, stage) ==
    LET err == add_investment_record_check(ra, batch_id, record_id, account_id)
        record == [batch_id |-> batch_id, record_id |-> record_id,
                   account_id |-> account_id, wallet |-> wallet,
                   amount_usdt |-> amount_usdt, amount_hcoin |-> amount_hcoin,
                   stage |-> stage, revoked_at |-> 0]
    IN  /\ records' = IF err = "Ok"
                      THEN records @@ (RecordPda(batch_id, record_id, account_id) :> record)
                      ELSE records
        /\ last' = Result("add_investment_record", err, 0, 0)
        /\ UNCHANGED <<info, profit_cache, refund_cache, vault, ata, now, probe>>

\* a variant that rewrites the records that hold the new wallet already
RecordsToRebind_equal_too(candidates, account_id, recipient) ==
    {p \in candidates \cap DOMAIN records : records[p].account_id = account_id}

\* the records of the candidate accounts that the loop rewrites
RecordsToRebind(candidates, account_id, recipient) ==
    {p \in candidates \cap DOMAIN records :
        records[p].account_id = account_id /\ records[p].wallet # recipient}

\* candidates: the record accounts passed after the three signer accounts
update_investment_record_wallets_check(ra, candidates, account_id, recipient) ==
    IF ~info.initialized THEN "AccountNotInitialized"
    ELSE IF ~info.is_active THEN "InvestmentInfoDeactivated"
    ELSE IF Len(ra) < 3 THEN "Panic"
    ELSE LET q == enforce_3_of_5_signers(info, FirstThree(ra), TRUE)
         IN  IF q # "Ok" THEN q
             ELSE IF ~(Cardinality(RecordsToRebind(candidates, account_id, recipient)) > 0)
                  THEN "NoRecordsUpdated"
             ELSE "Ok"

update_investment_record_wallets(ra, candidates, account_id, recipient) ==
    LET err == update_investment_record_wallets_check(ra, candidates, account_id, recipient)
        hit == RecordsToRebind(candidates, account_id, recipient)
    IN  /\ records' = IF err = "Ok"
                      THEN [p \in DOMAIN records |->
                               IF p \in hit
                               THEN [records[p] EXCEPT !.wallet = recipient]
                               ELSE records[p]]
                      ELSE records
        /\ last' = Result("update_investment_record_wallets", err, 0, 0)
        /\ UNCHANGED <<info, profit_cache, refund_cache, vault, ata, now, probe>>

\* a variant without the test of revoked_at
revoked_investment_record_check_again(ra, batch_id, record_id, account_id) ==
    IF ~info.initialized THEN "AccountNotInitialized"
    ELSE IF RecordPda(batch_id, record_id, account_id) \notin DOMAIN records
         THEN "AccountNotInitialized"
    ELSE IF ~info.is_active THEN "InvestmentInfoDeactivated"
    ELSE IF Len(ra) < 3 THEN "Panic"
    ELSE enforce_3_of_5_signers(info, FirstThree(ra), TRUE)

revoked_investment_record_check(ra, batch_id, record_id, account_id) ==
    IF ~info.initialized THEN "AccountNotInitialized"
    ELSE IF RecordPda(batch_id, record_id, account_id) \notin DOMAIN records
         THEN "AccountNotInitialized"
    ELSE IF ~info.is_active THEN "InvestmentInfoDeactivated"
    ELSE IF Len(ra) < 3 THEN "Panic"
    ELSE LET q == enforce_3_of_5_signers(info, FirstThree(ra), TRUE)
         IN  IF q # "Ok" THEN q
             ELSE IF ~(records[RecordPda(batch_id, record_id, account_id)].revoked_at = 0)
                  THEN "RecordAlreadyRevoked"
             ELSE "Ok"

revoked_investment_record(ra, batch_id, record_id, account_id) ==
    LET err == revoked_investment_record_check(ra, batch_id, record_id, account_id)
        p == RecordPda(batch_id, record_id, account_id)
    IN  /\ records' = IF err = "Ok"
                      THEN [records EXCEPT ![p].revoked_at = now]
                      ELSE records
        /\ last' = Result("revoked_investment_record", err, 0, 0)
        /\ UNCHANGED <<info, profit_cache, refund_cache, vault, ata, now, probe>>

----------------------------------------------------------------------------
(* Profit and refund share: estimate                                       *)

\* a variant that also admits the keys of withdraw_whitelist
estimate_signer_ok_any_list(ra) ==
    LET signer_accs == extract_signer_keys(SubSeq(ra, 1, 1))
    IN  \E i \in 1..Len(signer_accs) :
            \/ Contains(info.execute_whitelist, signer_accs[i].key)
            \/ Contains(info.update_whitelist, signer_accs[i].key)
            \/ Contains(info.withdraw_whitelist, signer_accs[i].key)

\* the first account of remaining_accounts has signed with a key of
\* execute_whitelist or update_whitelist
estimate_signer_ok(ra) ==
    LET signer_accs == extract_signer_keys(SubSeq(ra, 1, 1))
    IN  \E i \in 1..Len(signer_accs) :
            \/ Contains(info.execute_whitelist, signer_accs[i].key)
            \/ Contains(info.update_whitelist, signer_accs[i].key)

\* The loop that fills record_map from the data accounts (record PDAs), from
\* position i: [err, pdas], pdas the accounts inserted so far.
RECURSIVE LoadRecordMap(_, _, _, _)
LoadRecordMap(data, i, batch_id, pdas) ==
    IF i > Len(data) THEN [err |-> "Ok", pdas |-> pdas]
    ELSE IF data[i] \notin DOMAIN records
         THEN LoadRecordMap(data, i + 1, batch_id, pdas)
    ELSE LET record == records[data[i]]
         IN  IF ~(record.batch_id = batch_id)
                 THEN [err |-> "BatchIdMismatch", pdas |-> pdas]
             ELSE IF \E q \in pdas : records[q].record_id = record.record_id
                 THEN [err |-> "DuplicateRecord", pdas |-> pdas]
             ELSE LoadRecordMap(data, i + 1, batch_id, pdas \cup {data[i]})

\* record_map.iter(): the loaded records in ascending record_id
RECURSIVE InRecordIdOrder(_)
InRecordIdOrder(pdas) ==
    IF pdas = {} THEN <<>>
    ELSE LET first == CHOOSE p \in pdas :
                          \A q \in pdas : records[p].record_id <= records[q].record_id
         IN  <<records[first]>> \o InRecordIdOrder(pdas \ {first})

\* The loop that computes the profit entries, from position i of the ordered
\* records: [err, entries, subtotal].
RECURSIVE ProfitEntries(_, _, _, _, _, _)
ProfitEntries(recs, i, total_profit_usdt, total_invest_usdt, entries, subtotal) ==
    IF i > Len(recs) THEN [err |-> "Ok", entries |-> entries, subtotal |-> subtotal]
    ELSE IF recs[i].revoked_at # 0
         THEN ProfitEntries(recs, i + 1, total_profit_usdt, total_invest_usdt, entries, subtotal)
    ELSE IF total_invest_usdt = 0
         THEN [err |-> "Panic", entries |-> entries, subtotal |-> subtotal]
    ELSE LET ratio_bp == saturating_mul(recs[i].amount_usdt, 10000) \div total_invest_usdt
             amount == saturating_mul(total_profit_usdt, ratio_bp) \div 10000
             sum == checked_add(subtotal, amount)
         IN  IF ratio_bp > 65535
                 THEN [err |-> "BpRatioOverflow", entries |-> entries, subtotal |-> subtotal]
             ELSE IF sum = -1
                 THEN [err |-> "NumericalOverflow", entries |-> entries, subtotal |-> subtotal]
             ELSE ProfitEntries(recs, i + 1, total_profit_usdt, total_invest_usdt,
                      Append(entries, [account_id |-> recs[i].account_id,
                                       wallet |-> recs[i].wallet,
                                       amount |-> amount,
                                       ratio_or_stage |-> ratio_bp]),
                      sum)

\* a variant that computes the entries in the order of the data accounts
estimate_profit_share_result_in_data_order(ra, data, batch_id, total_profit_usdt, total_invest_usdt) ==
    LET none == [err |-> "Ok", entries |-> <<>>, subtotal |-> 0]
        E(e) == [none EXCEPT !.err = e]
        stored == SelectSeq(data, LAMBDA p : p \in DOMAIN records)
    IN  IF ~info.initialized THEN E("AccountNotInitialized")
        ELSE IF ~info.is_active THEN E("InvestmentInfoDeactivated")
        ELSE IF ~(info.state = "Completed") THEN E("InvestmentInfoNotCompleted")
        ELSE IF ~(info.investment_type = "Standard") THEN E("StandardOnly")
        ELSE IF Len(ra) < 1 THEN E("Panic")
        ELSE IF ~estimate_signer_ok(ra) THEN E("UnauthorizedSigner")
        ELSE IF ~(Len(data) <= MAX_ENTRIES_PER_BATCH) THEN E("TooManyRecordsLoaded")
        ELSE LET loaded == LoadRecordMap(data, 1, batch_id, {})
             IN  IF loaded.err # "Ok" THEN E(loaded.err)
                 ELSE IF ~(loaded.pdas # {} /\ Cardinality(loaded.pdas) <= MAX_ENTRIES_PER_BATCH)
                     THEN E("TooManyRecordsLoaded")
                 ELSE ProfitEntries([i \in 1..Len(stored) |-> records[stored[i]]], 1,
                          total_profit_usdt, total_invest_usdt, <<>>, 0)

\* the result of the computation of estimate_profit_share: [err, entries, subtotal]
estimate_profit_share_result(ra, data, batch_id, total_profit_usdt, total_invest_usdt) ==
    LET none == [err |-> "Ok", entries |-> <<>>, subtotal |-> 0]
        E(e) == [none EXCEPT !.err = e]
    IN  IF ~info.initialized THEN E("AccountNotInitialized")
        ELSE IF ~info.is_active THEN E("InvestmentInfoDeactivated")
        ELSE IF ~(info.state = "Completed") THEN E("InvestmentInfoNotCompleted")
        ELSE IF ~(info.investment_type = "Standard") THEN E("StandardOnly")
        ELSE IF Len(ra) < 1 THEN E("Panic")
        ELSE IF ~estimate_signer_ok(ra) THEN E("UnauthorizedSigner")
        ELSE IF ~(Len(data) <= MAX_ENTRIES_PER_BATCH) THEN E("TooManyRecordsLoaded")
        ELSE LET loaded == LoadRecordMap(data, 1, batch_id, {})
             IN  IF loaded.err # "Ok" THEN E(loaded.err)
                 ELSE IF ~(loaded.pdas # {} /\ Cardinality(loaded.pdas) <= MAX_ENTRIES_PER_BATCH)
                     THEN E("TooManyRecordsLoaded")
                 ELSE ProfitEntries(InRecordIdOrder(loaded.pdas), 1,
                          total_profit_usdt, total_invest_usdt, <<>>, 0)

\* a variant that leaves out the cost of the entries
subtotal_estimate_sol_base_only(entries) == ESTIMATE_SOL_BASE + 0 * Len(entries)

subtotal_estimate_sol(entries) ==
    ESTIMATE_SOL_BASE + Len(entries) * ESTIMATE_SOL_PER_ENTRY

\* the fields an estimate stores in its cache account
NewCache(batch_id, year_index, r) ==
    [batch_id |-> batch_id, year_index |-> year_index,
     subtotal |-> r.subtotal,
     subtotal_estimate_sol |-> subtotal_estimate_sol(r.entries),
     executed_at |-> 0,
     created_at |-> now,
     entries |-> r.entries]

\* a variant whose division by zero yields no entry instead of aborting
estimate_profit_share_division_unchecked(ra, data, batch_id, total_profit_usdt, total_invest_usdt) ==
    LET r0 == estimate_profit_share_result(ra, data, batch_id, total_profit_usdt, total_invest_usdt)
        r == IF r0.err = "Panic" THEN [r0 EXCEPT !.err = "Ok"] ELSE r0
        cache == NewCache(batch_id, 0, r)
    IN  /\ profit_cache' = IF r.err = "Ok"
                           THEN [k \in DOMAIN profit_cache \cup {batch_id} |->
                                    IF k = batch_id THEN cache ELSE profit_cache[k]]
                           ELSE profit_cache
        /\ last' = Result("estimate_profit_share", r.err, batch_id, 0)
        /\ UNCHANGED <<info, records, refund_cache, vault, ata, now, probe>>

\* ra: the signer account; data: the record accounts that follow it
estimate_profit_share(ra, data, batch_id, total_profit_usdt, total_invest_usdt) ==
    LET r == estimate_profit_share_result(ra, data, batch_id, total_profit_usdt, total_invest_usdt)
        cache == NewCache(batch_id, 0, r)
    IN  /\ profit_cache' = IF r.err = "Ok"
                           THEN [k \in DOMAIN profit_cache \cup {batch_id} |->
                                    IF k = batch_id THEN cache ELSE profit_cache[k]]
                           ELSE profit_cache
        /\ last' = Result("estimate_profit_share", r.err, batch_id, 0)
        /\ UNCHANGED <<info, records, refund_cache, vault, ata, now, probe>>

\* a variant that reads the percentage of the year before
get_refund_percentage_year_before(stage_ratio, stage, year_index) ==
    IF ~(stage >= 1 /\ stage <= MAX_STAGE) THEN 0
    ELSE IF year_index > MAX_YEAR_INDEX THEN 0
    ELSE stage_ratio[stage][year_index]

\* RefundShareCache::get_refund_percentage
get_refund_percentage(stage_ratio, stage, year_index) ==
    IF ~(stage >= 1 /\ stage <= MAX_STAGE) THEN 0
    ELSE IF year_index > MAX_YEAR_INDEX THEN 0
    ELSE stage_ratio[stage][year_index + 1]

\* (elapsed_secs / SECONDS_PER_YEAR) as u8: the division truncates toward
\* zero and the cast keeps the low 8 bits
expect_year_index(t, end_at) ==
    LET elapsed_secs == t - end_at
        q == IF elapsed_secs >= 0 THEN elapsed_secs \div SECONDS_PER_YEAR
             ELSE -((-elapsed_secs) \div SECONDS_PER_YEAR)
    IN  q % 256

RECURSIVE RefundEntries(_, _, _, _, _)
RefundEntries(recs, i, year_index, entries, subtotal) ==
    IF i > Len(recs) THEN [err |-> "Ok", entries |-> entries, subtotal |-> subtotal]
    ELSE IF recs[i].revoked_at # 0
         THEN RefundEntries(recs, i + 1, year_index, entries, subtotal)
    ELSE LET percent == get_refund_percentage(info.stage_ratio, recs[i].stage, year_index)
             product == checked_mul(recs[i].amount_hcoin, percent)
             amount == product \div 100
             sum == checked_add(subtotal, amount)
         IN  IF product = -1 \/ sum = -1
                 THEN [err |-> "NumericalOverflow", entries |-> entries, subtotal |-> subtotal]
             ELSE RefundEntries(recs, i + 1, year_index,
                      Append(entries, [account_id |-> recs[i].account_id,
                                       wallet |-> recs[i].wallet,
                                       amount |-> amount,
                                       ratio_or_stage |-> recs[i].stage]),
                      sum)

estimate_refund_share_result(ra, data, batch_id, year_index) ==
    LET none == [err |-> "Ok", entries |-> <<>>, subtotal |-> 0]
        E(e) == [none EXCEPT !.err = e]
    IN  IF ~info.initialized THEN E("AccountNotInitialized")
        ELSE IF ~info.is_active THEN E("InvestmentInfoDeactivated")
        ELSE IF ~(info.state = "Completed") THEN E("InvestmentInfoNotCompleted")
        ELSE IF Len(ra) < 1 THEN E("Panic")
        ELSE IF ~estimate_signer_ok(ra) THEN E("UnauthorizedSigner")
        ELSE IF ~(Len(data) <= MAX_ENTRIES_PER_BATCH) THEN E("TooManyRecordsLoaded")
        ELSE LET loaded == LoadRecordMap(data, 1, batch_id, {})
             IN  IF loaded.err # "Ok" THEN E(loaded.err)
                 ELSE IF ~(loaded.pdas # {} /\ Cardinality(loaded.pdas) <= MAX_ENTRIES_PER_BATCH)
                     THEN E("TooManyRecordsLoaded")
                 ELSE IF ~(/\ year_index <= expect_year_index(now, info.end_at)
                           /\ year_index >= START_YEAR_INDEX
                           /\ year_index <= MAX_YEAR_INDEX)
                     THEN E("RefundPeriodInvalid")
                 ELSE RefundEntries(InRecordIdOrder(loaded.pdas), 1, year_index, <<>>, 0)

estimate_refund_share(ra, data, batch_id, year_index) ==
    LET r == estimate_refund_share_result(ra, data, batch_id, year_index)
        key == <<batch_id, year_index>>
        cache == NewCache(batch_id, year_index, r)
    IN  /\ refund_cache' = IF r.err = "Ok"
                           THEN [k \in DOMAIN refund_cache \cup {key} |->
                                    IF k = key THEN cache ELSE refund_cache[k]]
                           ELSE refund_cache
        /\ last' = Result("estimate_refund_share", r.err, batch_id, year_index)
        /\ UNCHANGED <<info, records, profit_cache, vault, ata, now, probe>>

----------------------------------------------------------------------------
(* Profit and refund share: execute                                        *)

\* The transfer loop over the cache entries, from position i.  present: the
\* wallets whose associated token account is among remaining_accounts[3..];
\* failing: the positions whose transfer_token_checked returns Err.
\* [err, total_transferred, paid], paid the positions transferred.
RECURSIVE TransferLoop(_, _, _, _, _, _)
TransferLoop(entries, i, present, failing, total_transferred, paid) ==
    IF i > Len(entries)
        THEN [err |-> "Ok", total_transferred |-> total_transferred, paid |-> paid]
    ELSE IF entries[i].wallet \notin present
        THEN [err |-> "MissingAssociatedTokenAccount",
              total_transferred |-> total_transferred, paid |-> paid]
    ELSE IF i \in failing
        THEN TransferLoop(entries, i + 1, present, failing, total_transferred, paid)
    ELSE LET sum == checked_add(total_transferred, entries[i].amount)
         IN  IF sum = -1
                 THEN [err |-> "NumericalOverflow",
                       total_transferred |-> total_transferred, paid |-> paid]
             ELSE TransferLoop(entries, i + 1, present, failing, sum, paid \cup {i})

\* a variant that rejects a cache at exactly the expiry age
cache_fresh_strict(t, created_at) == t - created_at < SHARE_CACHE_EXPIRE_SECS

\* now - cache.created_at <= SHARE_CACHE_EXPIRE_SECS
cache_fresh(t, created_at) == t - created_at <= SHARE_CACHE_EXPIRE_SECS

\* whether the executor seals the cache after the loop
AllSucceeded(paid, entries) == Cardinality(paid) = Len(entries)

\* a variant without the tests of the balances of the vault
execute_share_result_unfunded(caches, key, asset, ra, present, failing) ==
    LET none == [err |-> "Ok", total_transferred |-> 0, paid |-> {}]
        E(e) == [none EXCEPT !.err = e]
    IN  IF ~info.initialized THEN E("AccountNotInitialized")
        ELSE IF key \notin DOMAIN caches THEN E("AccountNotInitialized")
        ELSE IF ~info.is_active THEN E("InvestmentInfoDeactivated")
        ELSE IF ~(info.state = "Completed") THEN E("InvestmentInfoNotCompleted")
        ELSE IF asset = "usdt" /\ ~(info.investment_type = "Standard") THEN E("StandardOnly")
        ELSE IF ~(caches[key].executed_at = 0) THEN E("ProfitAlreadyExecuted")
        ELSE IF ~cache_fresh(now, caches[key].created_at) THEN E("ProfitCacheExpired")
        ELSE IF ~(caches[key].subtotal > 0) THEN E("InvalidTotalUsdt")
        ELSE IF Len(ra) < 3 THEN E("Panic")
        ELSE IF enforce_3_of_5_signers(info, FirstThree(ra), FALSE) # "Ok"
            THEN E(enforce_3_of_5_signers(info, FirstThree(ra), FALSE))
        ELSE LET r == TransferLoop(caches[key].entries, 1, present, failing, 0, {})
             IN  IF r.err # "Ok" THEN r
                 ELSE IF ~(r.total_transferred = caches[key].subtotal)
                     THEN [r EXCEPT !.err = "TotalShareMismatch"]
                 ELSE r

\* the checks of execute_profit_share (asset "usdt") and execute_refund_share
\* (asset "hcoin") and the transfer loop: [err, total_transferred, paid]
execute_share_result(caches, key, asset, ra, present, failing) ==
    LET none == [err |-> "Ok", total_transferred |-> 0, paid |-> {}]
        E(e) == [none EXCEPT !.err = e]
    IN  IF ~info.initialized THEN E("AccountNotInitialized")
        ELSE IF key \notin DOMAIN caches THEN E("AccountNotInitialized")
        ELSE IF ~info.is_active THEN E("InvestmentInfoDeactivated")
        ELSE IF ~(info.state = "Completed") THEN E("InvestmentInfoNotCompleted")
        ELSE IF asset = "usdt" /\ ~(info.investment_type = "Standard") THEN E("StandardOnly")
        ELSE IF ~(caches[key].executed_at = 0) THEN E("ProfitAlreadyExecuted")
        ELSE IF ~cache_fresh(now, caches[key].created_at) THEN E("ProfitCacheExpired")
        ELSE IF ~(caches[key].subtotal > 0) THEN E("InvalidTotalUsdt")
        ELSE IF Len(ra) < 3 THEN E("Panic")
        ELSE IF enforce_3_of_5_signers(info, FirstThree(ra), FALSE) # "Ok"
            THEN E(enforce_3_of_5_signers(info, FirstThree(ra), FALSE))
        ELSE IF asset = "usdt" /\ ~(vault.usdt >= caches[key].subtotal)
            THEN E("InsufficientTokenBalance")
        ELSE IF ~(vault.lamports >= caches[key].subtotal_estimate_sol)
            THEN E("InsufficientSolBalance")
        ELSE IF asset = "hcoin" /\ ~(vault.hcoin >= caches[key].subtotal)
            THEN E("InsufficientTokenBalance")
        ELSE LET r == TransferLoop(caches[key].entries, 1, present, failing, 0, {})
             IN  IF r.err # "Ok" THEN r
                 ELSE IF ~(r.total_transferred = caches[key].subtotal)
                     THEN [r EXCEPT !.err = "TotalShareMismatch"]
                 ELSE r

\* the amount the transfers of the paid positions move to wallet w
RECURSIVE PaidTo(_, _, _)
PaidTo(entries, paid, w) ==
    IF paid = {} THEN 0
    ELSE LET i == CHOOSE j \in paid : TRUE
         IN  (IF entries[i].wallet = w THEN entries[i].amount ELSE 0)
             + PaidTo(entries, paid \ {i}, w)

\* the cache after a run of the executor that returned Ok
SealedCache(cache, r) ==
    IF AllSucceeded(r.paid, cache.entries) THEN [cache EXCEPT !.executed_at = now]
    ELSE cache

\* a variant that debits every payout from the USDT account
VaultAfter_usdt_only(cache, r, asset) ==
    [vault EXCEPT !.usdt = vault.usdt - r.total_transferred]

\* the token accounts after the transfers of a run that returned Ok
VaultAfter(cache, r, asset) ==
    [vault EXCEPT ![asset] = vault[asset] - r.total_transferred]

\* a variant that pays the wallet the record of the entry's account holds at
\* the time of the execute
AtaAfter_current_wallets(cache, r, asset) ==
    LET Holder(e) ==
            LET ps == {p \in DOMAIN records : records[p].account_id = e.account_id}
            IN  IF ps = {} THEN e.wallet ELSE records[CHOOSE p \in ps : TRUE].wallet
        Credit(w) ==
            SumSeq([i \in 1..Len(cache.entries) |->
                       IF i \in r.paid /\ Holder(cache.entries[i]) = w
                       THEN cache.entries[i].amount ELSE 0])
    IN  [w \in DOMAIN ata |-> [ata[w] EXCEPT ![asset] = ata[w][asset] + Credit(w)]]

AtaAfter(cache, r, asset) ==
    [w \in DOMAIN ata |->
        [ata[w] EXCEPT ![asset] = ata[w][asset] + PaidTo(cache.entries, r.paid, w)]]

execute_profit_share(ra, present, failing, batch_id) ==
    LET r == execute_share_result(profit_cache, batch_id, "usdt", ra, present, failing)
    IN  /\ IF r.err = "Ok"
           THEN /\ profit_cache' = [profit_cache EXCEPT
                                      ![batch_id] = SealedCache(profit_cache[batch_id], r)]
                /\ vault' = VaultAfter(profit_cache[batch_id], r, "usdt")
                /\ ata' = AtaAfter(profit_cache[batch_id], r, "usdt")
           ELSE UNCHANGED <<profit_cache, vault, ata>>
        /\ last' = Result("execute_profit_share", r.err, batch_id, 0)
        /\ UNCHANGED <<info, records, refund_cache, now, probe>>

execute_refund_share(ra, present, failing, batch_id, year_index) ==
    LET key == <<batch_id, year_index>>
        r == execute_share_result(refund_cache, key, "hcoin", ra, present, failing)
    IN  /\ IF r.err = "Ok"
           THEN /\ refund_cache' = [refund_cache EXCEPT
                                      ![key] = SealedCache(refund_cache[key], r)]
                /\ vault' = VaultAfter(refund_cache[key], r, "hcoin")
                /\ ata' = AtaAfter(refund_cache[key], r, "hcoin")
           ELSE UNCHANGED <<refund_cache, vault, ata>>
        /\ last' = Result("execute_refund_share", r.err, batch_id, year_index)
        /\ UNCHANGED <<info, records, profit_cache, now, probe>>

----------------------------------------------------------------------------
(* Vault deposit and withdrawal                                            *)

\* Rent::get()?.minimum_balance(vault.data_len()) of the zero-length vault
RentExempt == 890880

\* a variant without the is_active requirement
deposit_check_inactive_too ==
    IF ~info.initialized THEN "AccountNotInitialized"
    ELSE IF ~(info.state = "Completed") THEN "InvestmentInfoNotCompleted"
    ELSE "Ok"

\* a variant without the Completed requirement
deposit_check_pending_too ==
    IF ~info.initialized THEN "AccountNotInitialized"
    ELSE IF ~info.is_active THEN "InvestmentInfoDeactivated"
    ELSE "Ok"

deposit_check ==
    IF ~info.initialized THEN "AccountNotInitialized"
    ELSE IF ~info.is_active THEN "InvestmentInfoDeactivated"
    ELSE IF ~(info.state = "Completed") THEN "InvestmentInfoNotCompleted"
    ELSE "Ok"

deposit_sol_to_vault(amount) ==
    LET err == deposit_check
    IN  /\ vault' = IF err = "Ok"
                    THEN [vault EXCEPT !.lamports = vault.lamports + amount]
                    ELSE vault
        /\ last' = Result("deposit_sol_to_vault", err, 0, 0)
        /\ UNCHANGED <<info, records, profit_cache, refund_cache, ata, now, probe>>

deposit_token_to_vault_check(mint) ==
    IF deposit_check # "Ok" THEN deposit_check
    ELSE IF ~(mint = "usdt" \/ mint = "hcoin") THEN "InvalidTokenMint"
    ELSE "Ok"

deposit_token_to_vault(mint, amount) ==
    LET err == deposit_token_to_vault_check(mint)
    IN  /\ vault' = IF err = "Ok"
                    THEN [vault EXCEPT ![mint] = vault[mint] + amount]
                    ELSE vault
        /\ last' = Result("deposit_token_to_vault", err, 0, 0)
        /\ UNCHANGED <<info, records, profit_cache, refund_cache, ata, now, probe>>

\* a variant that counts the signers against the update list
withdraw_from_vault_check_update_list(ra, recipient) ==
    IF ~info.initialized THEN "AccountNotInitialized"
    ELSE IF ~info.is_active THEN "InvestmentInfoDeactivated"
    ELSE IF ~(info.state = "Completed") THEN "InvestmentInfoNotCompleted"
    ELSE IF Len(ra) < 3 THEN "Panic"
    ELSE LET q == enforce_3_of_5_signers(info, FirstThree(ra), TRUE)
         IN  IF q # "Ok" THEN q
             ELSE IF Len(info.withdraw_whitelist) = 0 THEN "EmptyWhitelist"
             ELSE IF ~Contains(info.withdraw_whitelist, recipient)
                 THEN "UnauthorizedRecipient"
             ELSE "Ok"

withdraw_from_vault_check(ra, recipient) ==
    IF ~info.initialized THEN "AccountNotInitialized"
    ELSE IF ~info.is_active THEN "InvestmentInfoDeactivated"
    ELSE IF ~(info.state = "Completed") THEN "InvestmentInfoNotCompleted"
    ELSE IF Len(ra) < 3 THEN "Panic"
    ELSE LET q == enforce_3_of_5_signers(info, FirstThree(ra), FALSE)
         IN  IF q # "Ok" THEN q
             ELSE IF Len(info.withdraw_whitelist) = 0 THEN "EmptyWhitelist"
             ELSE IF ~Contains(info.withdraw_whitelist, recipient)
                 THEN "UnauthorizedRecipient"
             ELSE "Ok"

\* a variant that keeps back the base of the gas estimate only
withdraw_lamports_base_only ==
    saturating_sub(saturating_sub(vault.lamports, RentExempt), ESTIMATE_SOL_BASE)

withdraw_lamports ==
    saturating_sub(saturating_sub(saturating_sub(vault.lamports, RentExempt),
                                  ESTIMATE_SOL_BASE),
                   ESTIMATE_SOL_PER_ENTRY)

\* the balance of the vault's token account of a mint: the accounts of mints
\* other than USDT and H2COIN are not followed and hold nothing
VaultAmount(mint) == IF mint \in {"usdt", "hcoin"} THEN vault[mint] ELSE 0

\* the instruction with its mint accounts, which the context takes as
\* supplied (context.rs:1216-1221): the vault's token accounts are the
\* associated accounts of these two mints
withdraw_from_vault_accounts(ra, recipient, usdt_mint, hcoin_mint) ==
    LET err == withdraw_from_vault_check(ra, recipient)
        moved == {usdt_mint, hcoin_mint} \cap {"usdt", "hcoin"}
    IN  /\ IF err = "Ok"
           THEN /\ vault' = [lamports |-> vault.lamports - withdraw_lamports,
                             usdt |-> IF "usdt" \in moved THEN 0 ELSE vault.usdt,
                             hcoin |-> IF "hcoin" \in moved THEN 0 ELSE vault.hcoin]
                /\ ata' = [ata EXCEPT ![recipient] =
                              [usdt |-> ata[recipient].usdt
                                          + (IF "usdt" \in moved THEN VaultAmount("usdt") ELSE 0),
                               hcoin |-> ata[recipient].hcoin
                                          + (IF "hcoin" \in moved THEN VaultAmount("hcoin") ELSE 0)]]
           ELSE UNCHANGED <<vault, ata>>
        /\ last' = Result("withdraw_from_vault", err, 0, 0)
        /\ UNCHANGED <<info, records, profit_cache, refund_cache, now, probe>>

\* the instruction called with the accounts of the two mints of the program
withdraw_from_vault(ra, recipient) ==
    withdraw_from_vault_accounts(ra, recipient, "usdt", "hcoin")

----------------------------------------------------------------------------
(* The clock and the direct call of the quorum check                       *)

\* Clock::get()?.unix_timestamp moves forward between instructions
Tick(t) ==
    /\ t > now
    /\ now' = t
    /\ last' = Result("clock", "Ok", 0, 0)
    /\ UNCHANGED <<info, records, profit_cache, refund_cache, vault, ata, probe>>

NoProbe == [signer_keys |-> <<>>, is_update |-> FALSE, out |-> "none"]

\* info.verify_signers_3_of_5(signer_keys, is_update) on the stored lists
VerifySigners(signer_keys, is_update) ==
    /\ probe' = [signer_keys |-> signer_keys, is_update |-> is_update,
                 out |-> verify_signers_3_of_5(info, signer_keys, is_update)]
    /\ UNCHANGED <<info, records, profit_cache, refund_cache, vault, ata, now, last>>

----------------------------------------------------------------------------
(* Inputs                                                                  *)

\* the time of the first instruction
T0 == 1000000000

TimePoints == {T0, T0 + SHARE_CACHE_EXPIRE_SECS, T0 + SHARE_CACHE_EXPIRE_SECS + 1}

Zeros(n) == [i \in 1..n |-> 0]

ScheduleA ==
    << <<10, 10, 10, 50, 20>> \o Zeros(5),
       <<25, 25, 25, 25>> \o Zeros(6),
       Zeros(10) >>

ScheduleBad == << <<101>> \o Zeros(9), Zeros(10), Zeros(10) >>

Batch == 1
Year == START_YEAR_INDEX
EndAt == T0 - Year * SECONDS_PER_YEAR
TotalProfit == 50
TotalInvest == 100
DepositTokens == 100
DepositLamports == 110000

SigE == <<Acc("e1"), Acc("e2"), Acc("e3")>>
SigU == <<Acc("u1"), Acc("u2"), Acc("u3")>>
SigMixed == <<Acc("e1"), Acc("u1"), Acc("x1")>>
SigUnsigned == <<Acc("e1"), Acc("e2"), NoSig("e3")>>

Rec1 ==
    [record_id |-> 1, account_id |-> "a", wallet |-> "w1",
     amount_usdt |-> 99, amount_hcoin |-> 100, stage |-> 1]

\* a record whose share of every distribution rounds to zero
Rec2 ==
    [record_id |-> 2, account_id |-> "b", wallet |-> "w2",
     amount_usdt |-> 1, amount_hcoin |-> 7, stage |-> 3]

Pda(r) == RecordPda(Batch, r.record_id, r.account_id)

TokenSupply(mint) ==
    LET RECURSIVE Held(_)
        Held(ws) == IF ws = {} THEN 0
                    ELSE LET w == CHOOSE x \in ws : TRUE
                         IN  ata[w][mint] + Held(ws \ {w})
    IN  vault[mint] + Held(DOMAIN ata)

CanDepositToken(mint) == TokenSupply(mint) + DepositTokens <= MaxDeposits * DepositTokens

\* no token has been deposited yet, of either mint
Unfunded == TokenSupply("usdt") + TokenSupply("hcoin") = 0

\* no lamports have been deposited yet
SolUnfunded == vault.lamports = RentExempt

Init ==
    /\ info = NoInfo
    /\ records = <<>>
    /\ profit_cache = <<>>
    /\ refund_cache = <<>>
    /\ vault = [lamports |-> RentExempt, usdt |-> 0, hcoin |-> 0]
    /\ ata = [w \in Holders |-> [usdt |-> 0, hcoin |-> 0]]
    /\ now = T0
    /\ last = Result("none", "Ok", 0, 0)
    /\ probe = NoProbe

AddRecord(ra, r) ==
    add_investment_record(ra, Batch, r.record_id, r.account_id, r.wallet,
                          r.amount_usdt, r.amount_hcoin, r.stage)

UpperLimit == 1000

Initialize(investment_type, stage_ratio) ==
    initialize_investment_info(investment_type, stage_ratio, EndAt, UpperLimit,
                               ExecKeys, UpdateKeys, WithdrawKeys)

\* the record accounts handed to an estimate
DataLists == {<<Pda(Rec1)>>, <<Pda(Rec2)>>, <<Pda(Rec1), Pda(Rec2)>>}

----------------------------------------------------------------------------
(* The distribution engine: records, completion, funding, estimate and      *)
(* execute, with transfers that may fail and recipients that may be absent  *)

Next ==
    \/ \E stage_ratio \in {ScheduleA, ScheduleBad} : Initialize("Standard", stage_ratio)
    \/ \E r \in {Rec1, Rec2} : AddRecord(SigU, r)
    \/ completed_investment_info(SigU)
    \/ \E mint \in {"usdt", "hcoin"} :
          CanDepositToken(mint) /\ deposit_token_to_vault(mint, DepositTokens)
    \/ \E data \in DataLists :
          estimate_profit_share(<<Acc("e1")>>, data, Batch, TotalProfit, TotalInvest)
    \/ \E data \in DataLists :
          estimate_refund_share(<<Acc("u1")>>, data, Batch, Year)
    \/ \E ra \in {SigE, SigMixed}, present \in {Wallets, {"w1"}}, failing \in SUBSET {1, 2} :
          execute_profit_share(ra, present, failing, Batch)
    \/ \E ra \in {SigE, SigMixed}, present \in {Wallets, {"w1"}}, failing \in SUBSET {1, 2} :
          execute_refund_share(ra, present, failing, Batch, Year)

Spec == Init /\ [][Next]_vars

----------------------------------------------------------------------------
(* Cache expiry: the engine with a moving clock                             *)

NextExpiry ==
    \/ Initialize("Standard", ScheduleA)
    \/ AddRecord(SigU, Rec1)
    \/ completed_investment_info(SigU)
    \/ \E mint \in {"usdt", "hcoin"} :
          CanDepositToken(mint) /\ deposit_token_to_vault(mint, DepositTokens)
    \/ estimate_profit_share(<<Acc("e1")>>, <<Pda(Rec1)>>, Batch, TotalProfit, TotalInvest)
    \/ estimate_refund_share(<<Acc("e1")>>, <<Pda(Rec1)>>, Batch, Year)
    \/ \E ra \in {SigE, SigMixed} : execute_profit_share(ra, Wallets, {}, Batch)
    \/ \E ra \in {SigE, SigMixed} : execute_refund_share(ra, Wallets, {}, Batch, Year)
    \/ \E t \in TimePoints : Tick(t)

SpecExpiry == Init /\ [][NextExpiry]_vars

----------------------------------------------------------------------------
(* The life cycle: every instruction, from creation to deactivation, with    *)
(* one funding of the vault                                                 *)

NextLife ==
    \/ Initialize("Standard", ScheduleA)
    \/ update_investment_info(SigU, Some(ScheduleA), Some(UpperLimit))
    \/ completed_investment_info(SigU)
    \/ deactivate_investment_info(SigU)
    \/ patch_execute_whitelist(SigE \o <<Acc("e5"), Acc("e6")>>)
    \/ patch_update_whitelist(SigU \o <<Acc("u5"), Acc("u6")>>)
    \/ patch_withdraw_whitelist(SigE \o <<Acc("x1")>>)
    \/ AddRecord(SigU, Rec1)
    \/ update_investment_record_wallets(SigU, {Pda(Rec1)}, Rec1.account_id, "w2")
    \/ revoked_investment_record(SigU, Batch, Rec1.record_id, Rec1.account_id)
    \/ estimate_profit_share(<<Acc("e1")>>, <<Pda(Rec1)>>, Batch, TotalProfit, TotalInvest)
    \/ estimate_refund_share(<<Acc("e1")>>, <<Pda(Rec1)>>, Batch, Year)
    \/ execute_profit_share(SigE, Wallets, {}, Batch)
    \/ execute_refund_share(SigE, Wallets, {}, Batch, Year)
    \/ SolUnfunded /\ deposit_sol_to_vault(DepositLamports)
    \/ \E mint \in {"usdt", "hcoin"} :
          Unfunded /\ deposit_token_to_vault(mint, DepositTokens)
    \/ withdraw_from_vault(SigE, "x1")

SpecLife == Init /\ [][NextLife]_vars

----------------------------------------------------------------------------
(* Authorization: the quorum-gated instructions of an active investment,    *)
(* with signers of either list                                              *)

NextAuth ==
    \/ Initialize("Standard", ScheduleA)
    \/ update_investment_info(SigU, Some(ScheduleA), Some(UpperLimit))
    \/ \E ra \in {SigE, SigU} : completed_investment_info(ra)
    \/ patch_execute_whitelist(SigE \o <<Acc("e3"), Acc("u3")>>)
    \/ patch_update_whitelist(SigU \o <<Acc("u5"), Acc("u6")>>)
    \/ patch_withdraw_whitelist(SigE \o <<Acc("x1")>>)
    \/ AddRecord(SigU, Rec1)
    \/ update_investment_record_wallets(SigU, {Pda(Rec1)}, Rec1.account_id, "w2")
    \/ revoked_investment_record(SigU, Batch, Rec1.record_id, Rec1.account_id)
    \/ estimate_profit_share(<<Acc("e1")>>, <<Pda(Rec1)>>, Batch, TotalProfit, TotalInvest)
    \/ estimate_refund_share(<<Acc("e1")>>, <<Pda(Rec1)>>, Batch, Year)
    \/ execute_profit_share(SigE, Wallets, {}, Batch)
    \/ execute_refund_share(SigE, Wallets, {}, Batch, Year)
    \/ \E mint \in {"usdt", "hcoin"} :
          Unfunded /\ deposit_token_to_vault(mint, DepositTokens)
    \/ \E ra \in {SigE, SigU} : withdraw_from_vault(ra, "x1")

SpecAuth == Init /\ [][NextAuth]_vars

----------------------------------------------------------------------------
(* Properties of the distribution caches                                    *)

ProfitKey == Batch
RefundKey == <<Batch, Year>>

\* the sum of the amounts of a cache's entries
RECURSIVE EntrySum(_)
EntrySum(entries) ==
    IF entries = <<>> THEN 0 ELSE Head(entries).amount + EntrySum(Tail(entries))

\* the sum of the amounts of the entries whose recipient is w
RECURSIVE OwedTo(_, _)
OwedTo(entries, w) ==
    IF entries = <<>> THEN 0
    ELSE (IF Head(entries).wallet = w THEN Head(entries).amount ELSE 0)
         + OwedTo(Tail(entries), w)

Sealed(caches) == {k \in DOMAIN caches : caches[k].executed_at # 0}

\* C1: a cache is single-use: once an execute has set executed_at, no later
\* step of any instruction, the estimates included, brings executed_at of
\* that cache back to 0 (which would let it be paid out again).
C1_CacheSingleUse ==
    [][/\ \A k \in Sealed(profit_cache) : profit_cache'[k].executed_at # 0
       /\ \A k \in Sealed(refund_cache) : refund_cache'[k].executed_at # 0]_vars

\* C2: every execute that returns success has transferred every entry and
\* has set executed_at: a failed transfer of any entry fails the whole call.
C2_FailedTransferFailsExecute ==
    /\ (last.op = "execute_profit_share" /\ last.err = "Ok")
          => profit_cache[ProfitKey].executed_at # 0
    /\ (last.op = "execute_refund_share" /\ last.err = "Ok")
          => refund_cache[RefundKey].executed_at # 0

\* what a step that seals cache c of the given asset does to the balances
Conserves(c, asset, other) ==
    /\ vault[asset] - vault'[asset] = c.subtotal
    /\ c.subtotal = EntrySum(c.entries)
    /\ \A w \in Holders : ata'[w][asset] - ata[w][asset] = OwedTo(c.entries, w)
    /\ vault'[other] = vault[other]
    /\ \A w \in Holders : ata'[w][other] = ata[w][other]

\* C3: conservation: a step that seals a cache takes exactly cache.subtotal,
\* the sum of the entry amounts, out of the vault's account of the paid asset
\* (USDT for profit, H2COIN for refund), credits every entry's recipient with
\* the entry's amount and leaves the other asset where it is.
C3_Conservation ==
    [][/\ \A k \in DOMAIN profit_cache \ Sealed(profit_cache) :
             profit_cache'[k].executed_at # 0
                => Conserves(profit_cache[k], "usdt", "hcoin")
       /\ \A k \in DOMAIN refund_cache \ Sealed(refund_cache) :
             refund_cache'[k].executed_at # 0
                => Conserves(refund_cache[k], "hcoin", "usdt")]_vars

\* both caches sealed, the investor of the first record paid in both assets
C3_Witness ==
    /\ ProfitKey \in Sealed(profit_cache)
    /\ RefundKey \in Sealed(refund_cache)
    /\ Len(profit_cache[ProfitKey].entries) = 2
    /\ ata["w1"].usdt = profit_cache[ProfitKey].subtotal
    /\ ata["w1"].hcoin = refund_cache[RefundKey].subtotal
    /\ ata["w1"].usdt > 0 /\ ata["w1"].hcoin > 0

\* C4: of two executes on the same cache with no estimate between them, at
\* most one succeeds: the one that follows a successful execute does not
\* succeed and changes no balance and no cache.
C4_SecondExecuteFails ==
    [][\A op \in {"execute_profit_share", "execute_refund_share"} :
          (last.op = op /\ last.err = "Ok" /\ last'.op = op)
             => /\ last'.err # "Ok"
                /\ UNCHANGED <<vault, ata, profit_cache, refund_cache>>]_vars

\* the results of an execute on cache k for every choice of signers,
\* recipient accounts and failing transfers
ExecuteErrs(caches, k, asset) ==
    {execute_share_result(caches, k, asset, ra, present, failing).err :
        ra \in {SigE, SigU, SigMixed, SigUnsigned},
        present \in SUBSET Wallets, failing \in SUBSET {1}}

\* the expiry rule for the unexecuted caches of an active investment
ExpiryRule(caches, asset) ==
    \A k \in DOMAIN caches \ Sealed(caches) :
        LET age == now - caches[k].created_at
        IN  /\ age > 2160000 => ExecuteErrs(caches, k, asset) = {"ProfitCacheExpired"}
            /\ age = 2160000 =>
                  /\ "ProfitCacheExpired" \notin ExecuteErrs(caches, k, asset)
                  /\ (vault[asset] >= caches[k].subtotal /\ caches[k].subtotal > 0)
                        => execute_share_result(caches, k, asset, SigE, Wallets, {}).err = "Ok"

\* C5: an execute on an unexecuted cache older than 25 days (2,160,000 s)
\* fails with the cache-expired error whatever the signers, the recipient
\* accounts and the vault balances are, and the cache stays unexecuted; at
\* exactly 25 days the cache is still accepted.
C5_Expiry ==
    /\ info.is_active => (ExpiryRule(profit_cache, "usdt") /\ ExpiryRule(refund_cache, "hcoin"))
    /\ (last.op = "execute_profit_share" /\ last.err = "ProfitCacheExpired")
          => /\ profit_cache[ProfitKey].executed_at = 0
             /\ now - profit_cache[ProfitKey].created_at > 2160000
    /\ (last.op = "execute_refund_share" /\ last.err = "ProfitCacheExpired")
          => /\ refund_cache[RefundKey].executed_at = 0
             /\ now - refund_cache[RefundKey].created_at > 2160000

\* a funded vault whose profit cache has just been refused as expired
C5_Witness ==
    /\ last.op = "execute_profit_share" /\ last.err = "ProfitCacheExpired"
    /\ vault.usdt >= profit_cache[ProfitKey].subtotal
    /\ now - profit_cache[ProfitKey].created_at > 2160000

----------------------------------------------------------------------------
(* The quorum check as a function: every list and every sequence of signer  *)
(* keys of the pools below                                                  *)

KeyPool == {"e1", "e2", "e3", "u1", "u2", "x1"}

MaxSigners == 4

SignerKeySeqs == UNION {[1..n -> KeyPool] : n \in 0..MaxSigners}

ExecuteLists == {ExecKeys, SubSeq(ExecKeys, 1, 4), ExecKeys \o <<"e6">>}

UpdateLists == {UpdateKeys, SubSeq(UpdateKeys, 1, 4)}

InitQuorum ==
    /\ info \in {[NoInfo EXCEPT !.initialized = TRUE, !.state = "Pending",
                                !.is_active = TRUE, !.stage_ratio = ScheduleA,
                                !.execute_whitelist = e, !.update_whitelist = u] :
                    e \in ExecuteLists, u \in UpdateLists}
    /\ records = <<>>
    /\ profit_cache = <<>>
    /\ refund_cache = <<>>
    /\ vault = [lamports |-> RentExempt, usdt |-> 0, hcoin |-> 0]
    /\ ata = [w \in Holders |-> [usdt |-> 0, hcoin |-> 0]]
    /\ now = T0
    /\ last = Result("none", "Ok", 0, 0)
    /\ probe = NoProbe

\* one call on each input
NextQuorum ==
    /\ probe = NoProbe
    /\ \E signer_keys \in SignerKeySeqs, is_update \in BOOLEAN :
          VerifySigners(signer_keys, is_update)

SpecQuorum == InitQuorum /\ [][NextQuorum]_vars

\* the list the call was to count against
ProbedList == IF probe.is_update THEN info.update_whitelist ELSE info.execute_whitelist

\* whether three positions of the supplied keys hold keys of the list
ThreeSupplied(keys, list) ==
    \E i, j, k \in 1..Len(keys) :
        /\ i < j /\ j < k
        /\ keys[i] \in Range(list) /\ keys[j] \in Range(list) /\ keys[k] \in Range(list)

\* C6: verify_signers_3_of_5 returns Ok iff the selected list has exactly 5
\* entries and at least 3 of the supplied signer keys are in it; with 5
\* entries and fewer matches it returns UnauthorizedSigner, however many keys
\* are supplied; with another length it returns WhitelistMustBeFive.
C6_QuorumIff ==
    probe.out # "none" =>
        LET five == Len(ProbedList) = 5
            three == ThreeSupplied(probe.signer_keys, ProbedList)
        IN  /\ probe.out = "Ok" <=> (five /\ three)
            /\ (five /\ ~three) => probe.out = "UnauthorizedSigner"
            /\ ~five => probe.out = "WhitelistMustBeFive"

\* four keys supplied, two of them of the update list: refused
C6_Witness ==
    /\ probe.out = "UnauthorizedSigner"
    /\ probe.is_update
    /\ Len(probe.signer_keys) = 4
    /\ Cardinality(Range(probe.signer_keys) \cap Range(info.update_whitelist)) = 2
    /\ Len(info.execute_whitelist) # 5

\* C7: the quorum is over a set of keys: the check succeeds only if at least
\* 3 distinct members of the selected list are among the supplied keys.
C7_DistinctSigners ==
    probe.out = "Ok" =>
        Cardinality(Range(probe.signer_keys) \cap Range(ProbedList)) >= 3

----------------------------------------------------------------------------
(* Properties of the authorization and of the life cycle                    *)

\* three signer accounts to try on every instruction: of one list, mixed,
\* of the withdraw list only, and with a signature missing
SignerProbes ==
    {SigE, SigU, SigMixed, SigUnsigned,
     <<Acc("e1"), Acc("e2"), Acc("u1")>>, <<Acc("u1"), Acc("u2"), Acc("e1")>>,
     <<Acc("e1"), Acc("e2"), Acc("x1")>>, <<Acc("u1"), Acc("u2"), Acc("x1")>>,
     <<Acc("x1"), Acc("x1"), Acc("x1")>>, <<Acc("u1"), Acc("u2"), NoSig("u3")>>,
     <<Acc("e1"), Acc("e2"), Acc("u3")>>}

\* at least three of the accounts have signed with a key of the list
SignedBy(ra, list) ==
    Cardinality({i \in 1..Len(ra) : ra[i].is_signer /\ ra[i].key \in Range(list)}) >= 3

\* the update-list instructions that accept the signers ra, on some input
UpdateListAccepts(ra) ==
    \/ update_investment_info_check(ra) = "Ok"
    \/ completed_investment_info_check(ra) = "Ok"
    \/ deactivate_investment_info_check(ra) = "Ok"
    \/ patch_update_whitelist_check(ra \o <<Acc("u5"), Acc("u6")>>) = "Ok"
    \/ \E r \in {Rec1, Rec2} :
          \/ add_investment_record_check(ra, Batch, r.record_id, r.account_id) = "Ok"
          \/ revoked_investment_record_check(ra, Batch, r.record_id, r.account_id) = "Ok"
          \/ \E w \in Wallets :
                update_investment_record_wallets_check(ra, {Pda(r)}, r.account_id, w) = "Ok"

\* the execute-list instructions that accept the signers ra, on some input
ExecuteListAccepts(ra) ==
    \/ execute_share_result(profit_cache, ProfitKey, "usdt", ra, Wallets, {}).err = "Ok"
    \/ execute_share_result(refund_cache, RefundKey, "hcoin", ra, Wallets, {}).err = "Ok"
    \/ \E recipient \in {"x1", "x2"} : withdraw_from_vault_check(ra, recipient) = "Ok"
    \/ patch_execute_whitelist_check(ra \o <<Acc("e5"), Acc("e6")>>) = "Ok"
    \/ patch_withdraw_whitelist_check(ra \o <<Acc("x1")>>) = "Ok"

AllResults ==
    {update_investment_info_check(SigU), completed_investment_info_check(SigU),
     deactivate_investment_info_check(SigU),
     patch_execute_whitelist_check(SigE \o <<Acc("e5"), Acc("e6")>>),
     patch_execute_whitelist_check(SigE \o <<Acc("e6"), Acc("e5")>>),
     patch_update_whitelist_check(SigU \o <<Acc("u5"), Acc("u6")>>),
     patch_update_whitelist_check(SigU \o <<Acc("u6"), Acc("u5")>>),
     patch_withdraw_whitelist_check(SigE \o <<Acc("x2")>>),
     add_investment_record_check(SigU, Batch, Rec2.record_id, Rec2.account_id),
     update_investment_record_wallets_check(SigU, {Pda(Rec1)}, Rec1.account_id, "w1"),
     update_investment_record_wallets_check(SigU, {Pda(Rec1)}, Rec1.account_id, "w2"),
     revoked_investment_record_check(SigU, Batch, Rec1.record_id, Rec1.account_id),
     estimate_profit_share_result(<<Acc("e1")>>, <<Pda(Rec1)>>, Batch, TotalProfit, TotalInvest).err,
     estimate_refund_share_result(<<Acc("e1")>>, <<Pda(Rec1)>>, Batch, Year).err,
     execute_share_result(profit_cache, ProfitKey, "usdt", SigE, Wallets, {}).err,
     execute_share_result(refund_cache, RefundKey, "hcoin", SigE, Wallets, {}).err,
     deposit_check, deposit_token_to_vault_check("usdt"), deposit_token_to_vault_check("hcoin"),
     withdraw_from_vault_check(SigE, "x1")}

\* C9: deactivation is terminal: while is_active is false every instruction
\* fails, and no step changes the configuration, a record, a cache or a
\* balance of the vault or of a token account.
C9_DeactivationTerminal ==
    [][(info.initialized /\ ~info.is_active) =>
          /\ "Ok" \notin AllResults
          /\ last'.err # "Ok"
          /\ UNCHANGED <<info, records, profit_cache, refund_cache, vault, ata>>]_vars

\* funds left in the vault of a deactivated investment, a withdrawal refused
C9_Witness ==
    /\ info.initialized /\ ~info.is_active
    /\ last.op = "withdraw_from_vault" /\ last.err = "InvestmentInfoDeactivated"
    /\ vault.usdt > 0
    /\ DOMAIN profit_cache # {}

\* C10: the life cycle is monotonic: state changes only from Pending to
\* Completed, by a successful completed_investment_info, which fails on a
\* Completed investment; is_active changes only from true to false, by a
\* successful deactivate_investment_info, which fails unless the state is
\* Completed; so an inactive investment is Completed.
C10_Lifecycle ==
    [][/\ info.initialized => info'.initialized
       /\ (~info.initialized /\ info'.initialized)
             => (info'.state = "Pending" /\ info'.is_active)
       /\ (info.initialized /\ info'.state # info.state)
             => /\ info.state = "Pending" /\ info'.state = "Completed"
                /\ last'.op = "completed_investment_info" /\ last'.err = "Ok"
       /\ (info.state = "Completed" /\ last'.op = "completed_investment_info")
             => last'.err # "Ok"
       /\ (info.initialized /\ info'.is_active # info.is_active)
             => /\ info.is_active /\ ~info'.is_active
                /\ last'.op = "deactivate_investment_info" /\ last'.err = "Ok"
       /\ (info.state # "Completed" /\ last'.op = "deactivate_investment_info")
             => last'.err # "Ok"
       /\ (info'.initialized /\ ~info'.is_active) => info'.state = "Completed"]_vars

\* an investment that has been completed and then deactivated
C10_Witness ==
    /\ info.initialized /\ ~info.is_active /\ info.state = "Completed"
    /\ last.op = "deactivate_investment_info" /\ last.err = "Ok"
    /\ DOMAIN records # {}

----------------------------------------------------------------------------
(* Properties of the phases, the schedule and the records                   *)

DistributionOps ==
    {"estimate_profit_share", "estimate_refund_share", "execute_profit_share",
     "execute_refund_share", "deposit_sol_to_vault", "deposit_token_to_vault",
     "withdraw_from_vault"}

\* C11: the phases are ordered: add_investment_record succeeds only on an
\* active investment that is not Completed, estimate, execute, deposit and
\* withdraw only on an active Completed one; so a record is appended only
\* before any cache exists or any deposit was made, and the set of records
\* of a Completed investment never changes.
C11_PhaseOrder ==
    [][/\ (last'.op = "add_investment_record" /\ last'.err = "Ok")
             => /\ info.initialized /\ info.is_active /\ info.state # "Completed"
                /\ DOMAIN profit_cache = {} /\ DOMAIN refund_cache = {}
                /\ Unfunded /\ SolUnfunded
       /\ (last'.op \in DistributionOps /\ last'.err = "Ok")
             => (info.initialized /\ info.is_active /\ info.state = "Completed")
       /\ info.state = "Completed" => DOMAIN records' = DOMAIN records]_vars

\* a funded Completed investment with a record and a cache, an append just
\* refused and the append of a second record refused as well
C11_Witness ==
    /\ last.op = "add_investment_record" /\ last.err # "Ok"
    /\ info.state = "Completed" /\ info.is_active
    /\ DOMAIN records # {} /\ DOMAIN profit_cache # {}
    /\ ~Unfunded
    /\ add_investment_record_check(SigU, Batch, Rec2.record_id, Rec2.account_id)
          = "InvestmentInfoHasCompleted"

----------------------------------------------------------------------------
(* The schedule validation as a function: every schedule whose first stage  *)
(* row is one of the rows below                                             *)

ZeroRow == Zeros(10)

\* rows that vary in their first four values and in their last one, and the
\* row of five 20s after two leading zeros
ScheduleRows ==
    {<<a, b, c, d>> \o Zeros(5) \o <<z>> :
        a \in {0, 20, 60, 101}, b \in {0, 20, 60, 101},
        c \in {0, 20, 60}, d \in {0, 20}, z \in {0, 20}}
    \cup {<<0, 0, 20, 20, 20, 20, 20, 0, 0, 0>>}

ScheduleInputs ==
    {<<r, s, ZeroRow>> : r \in ScheduleRows, s \in {ZeroRow, ScheduleA[2]}}

InitSchedule ==
    /\ info = NoInfo
    /\ records = <<>>
    /\ profit_cache = <<>>
    /\ refund_cache = <<>>
    /\ vault = [lamports |-> RentExempt, usdt |-> 0, hcoin |-> 0]
    /\ ata = [w \in Holders |-> [usdt |-> 0, hcoin |-> 0]]
    /\ now = T0
    /\ last = Result("none", "Ok", 0, 0)
    /\ probe \in {[stage_ratio |-> s, out |-> "none"] : s \in ScheduleInputs}

\* self.validate_stage_ratio() on the schedule drawn
ValidateSchedule ==
    /\ probe.out = "none"
    /\ probe' = [probe EXCEPT !.out = validate_stage_ratio(probe.stage_ratio)]
    /\ UNCHANGED <<info, records, profit_cache, refund_cache, vault, ata, now, last>>

SpecSchedule == InitSchedule /\ [][ValidateSchedule]_vars

\* the non-zero values of the row are its first k values, for some k
PrefixBlock(row) ==
    \E k \in 0..Len(row) :
        /\ \A i \in 1..k : row[i] # 0
        /\ \A i \in (k + 1)..Len(row) : row[i] = 0

\* the schedule rules as stated: values and row sums at most 100, the
\* non-zero values of a row one block that starts at index 0, some value
\* of the schedule non-zero
ScheduleRulesHold(stage_ratio) ==
    /\ \A s \in 1..Len(stage_ratio) :
          /\ \A i \in 1..Len(stage_ratio[s]) : stage_ratio[s][i] <= 100
          /\ SumSeq(stage_ratio[s]) <= 100
          /\ PrefixBlock(stage_ratio[s])
    /\ \E s \in 1..Len(stage_ratio) : \E i \in 1..Len(stage_ratio[s]) :
          stage_ratio[s][i] # 0

\* C12: validate_stage_ratio accepts a schedule iff every row's values are
\* at most 100, every row sums to at most 100, the non-zero values of every
\* row are a block that starts at index 0, and some value is non-zero.
C12_ScheduleIff ==
    probe.out # "none" =>
        (probe.out = "Ok" <=> ScheduleRulesHold(probe.stage_ratio))

----------------------------------------------------------------------------
(* The configuration account alone: initialization with lists of any       *)
(* length and schedules of any kind, updates, completion, deactivation and *)
(* whitelist patches                                                       *)

\* a schedule whose first row starts after two zeros
ScheduleLate == << <<0, 0, 20, 20, 20, 20, 20, 0, 0, 0>>, Zeros(10), Zeros(10) >>

\* a schedule with a gap in its first row
ScheduleGap == << <<50, 0, 50>> \o Zeros(7), Zeros(10), Zeros(10) >>

ExecLists == {ExecKeys, SubSeq(ExecKeys, 1, 4)}
UpdateLists5 == {UpdateKeys, UpdateKeys \o <<"u6">>}
WithdrawLists == {<<>>, <<"x1">>, <<"x1", "x2", "x3", "x4", "x5", "x6">>}

\* the from and to accounts of a patch of the execute list, and of the
\* update list
ExecPatches == {<<"e5", "e6">>, <<"e6", "e5">>, <<"e1", "e6">>, <<"e1", "e2">>, <<"e1", "e1">>}
UpdatePatches == {<<"u5", "u6">>, <<"u6", "u5">>, <<"u1", "e1">>, <<"u1", "u2">>}

NextConfig ==
    \/ \E stage_ratio \in {ScheduleA, ScheduleBad, ScheduleGap, ScheduleLate}, e \in ExecLists,
          u \in UpdateLists5, w \in WithdrawLists :
          initialize_investment_info("Standard", stage_ratio, EndAt, UpperLimit, e, u, w)
    \/ \E ra \in {SigU, SigE},
          new_stage_ratio \in {None, Some(ScheduleLate), Some(ScheduleBad)},
          new_upper_limit \in {None, Some(UpperLimit + 1)} :
          update_investment_info(ra, new_stage_ratio, new_upper_limit)
    \/ completed_investment_info(SigU)
    \/ deactivate_investment_info(SigU)
    \/ \E p \in ExecPatches :
          patch_execute_whitelist(SigE \o <<Acc(p[1]), Acc(p[2])>>)
    \/ \E p \in UpdatePatches :
          patch_update_whitelist(SigU \o <<Acc(p[1]), Acc(p[2])>>)
    \/ \E w \in WithdrawLists \cup {<<"x2", "x1">>} :
          patch_withdraw_whitelist(SigE \o [i \in 1..Len(w) |-> Acc(w[i])])

SpecConfig == Init /\ [][NextConfig]_vars

\* C13: the schedule stored in the configuration passes validate_stage_ratio
\* in every reachable state, and an update with a schedule that does not
\* pass fails and leaves the stored schedule and upper limit as they were.
C13_StoredScheduleValid ==
    info.initialized => validate_stage_ratio(info.stage_ratio) = "Ok"


\* C14: update_investment_info succeeds only while the investment is active
\* and not Completed; once the state is Completed every update fails.
C14_UpdateOnlyBeforeCompleted ==
    [][(last'.op = "update_investment_info" /\ last'.err = "Ok")
          => (info.is_active /\ info.state # "Completed")]_vars

----------------------------------------------------------------------------
(* The refund year: investments that end before and after the clock, and   *)
(* estimates of every year index around the window                         *)

\* three years before T0, one second short of four years before T0, one
\* second after T0, and two years after T0
EndAts ==
    {T0 - 3 * SECONDS_PER_YEAR, T0 - 4 * SECONDS_PER_YEAR + 1,
     T0 + 1, T0 + 2 * SECONDS_PER_YEAR}

YearIndexes == {START_YEAR_INDEX - 1, START_YEAR_INDEX, START_YEAR_INDEX + 1,
                MAX_YEAR_INDEX, MAX_YEAR_INDEX + 1}

NextYear ==
    \/ \E end_at \in EndAts :
          initialize_investment_info("Standard", ScheduleA, end_at, UpperLimit,
                                     ExecKeys, UpdateKeys, WithdrawKeys)
    \/ AddRecord(SigU, Rec1)
    \/ completed_investment_info(SigU)
    \/ \E year_index \in YearIndexes :
          estimate_refund_share(<<Acc("e1")>>, <<Pda(Rec1)>>, Batch, year_index)
    \/ Tick(T0 + SECONDS_PER_YEAR)

SpecYear == Init /\ [][NextYear]_vars

\* C15: a successful estimate_refund_share has a year index between
\* START_YEAR_INDEX and MAX_YEAR_INDEX that is at most the number of full
\* 365-day years from end_at to the clock; with the clock before end_at no
\* year has elapsed and the call fails.
C15_RefundYearWindow ==
    [][(last'.op = "estimate_refund_share" /\ last'.err = "Ok")
          => /\ last'.year >= START_YEAR_INDEX
             /\ last'.year <= MAX_YEAR_INDEX
             /\ now >= info.end_at
             /\ last'.year * SECONDS_PER_YEAR <= now - info.end_at]_vars

----------------------------------------------------------------------------
(* Revocation: two records, revoked at either of two times, rebound, and   *)
(* estimated before and after                                               *)

NextRevoke ==
    \/ Initialize("Standard", ScheduleA)
    \/ \E r \in {Rec1, Rec2} : AddRecord(SigU, r)
    \/ completed_investment_info(SigU)
    \/ \E r \in {Rec1, Rec2} :
          revoked_investment_record(SigU, Batch, r.record_id, r.account_id)
    \/ update_investment_record_wallets(SigU, {Pda(Rec1)}, Rec1.account_id, "w2")
    \/ \E data \in DataLists :
          estimate_profit_share(<<Acc("e1")>>, data, Batch, TotalProfit, TotalInvest)
    \/ \E data \in DataLists :
          estimate_refund_share(<<Acc("e1")>>, data, Batch, Year)
    \/ Tick(T0 + 1)

SpecRevoke == Init /\ [][NextRevoke]_vars

Revoked(p) == p \in DOMAIN records /\ records[p].revoked_at # 0

\* the entries of the cache that the estimate of the step has written
WrittenEntries ==
    IF last'.op = "estimate_profit_share" THEN profit_cache'[last'.batch].entries
    ELSE refund_cache'[<<last'.batch, last'.year>>].entries

\* C16: a successful revoked_investment_record sets revoked_at of one record
\* from 0 to the clock; on a revoked record of an active investment it fails
\* with RecordAlreadyRevoked; a non-zero revoked_at is never changed by any
\* step; a successful estimate writes no entry for a record revoked before it.
C16_RevocationOneWay ==
    [][/\ \A p \in DOMAIN records :
             records[p].revoked_at # 0
                => (p \in DOMAIN records' /\ records'[p].revoked_at = records[p].revoked_at)
       /\ (last'.op = "revoked_investment_record" /\ last'.err = "Ok")
             => \E p \in DOMAIN records :
                   /\ records[p].revoked_at = 0
                   /\ records' = [records EXCEPT ![p].revoked_at = now]
                   /\ now # 0
       /\ \A r \in {Rec1, Rec2} :
             (Revoked(Pda(r)) /\ info.is_active)
                => revoked_investment_record_check(SigU, Batch, r.record_id, r.account_id)
                      = "RecordAlreadyRevoked"
       /\ (last'.op \in {"estimate_profit_share", "estimate_refund_share"} /\ last'.err = "Ok")
             => \A p \in DOMAIN records, i \in 1..Len(WrittenEntries) :
                   Revoked(p) => WrittenEntries[i].account_id # records[p].account_id]_vars

\* an estimate has just written a cache whose one entry is that of the
\* record that is not revoked, at a time after the revocation of the other
C16_Witness ==
    /\ last.op = "estimate_profit_share" /\ last.err = "Ok"
    /\ Revoked(Pda(Rec1)) /\ records[Pda(Rec1)].revoked_at < now
    /\ Pda(Rec2) \in DOMAIN records /\ ~Revoked(Pda(Rec2))
    /\ Len(profit_cache[Batch].entries) = 1
    /\ profit_cache[Batch].entries[1].account_id = Rec2.account_id

----------------------------------------------------------------------------
(* Record accounts: records that share a record_id under two account ids    *)

\* the record_id of Rec1 under the account id of Rec2
Rec1Twin == [Rec1 EXCEPT !.account_id = Rec2.account_id, !.wallet = Rec2.wallet]

TwinDataLists ==
    {<<Pda(Rec1)>>, <<Pda(Rec1Twin)>>, <<Pda(Rec1), Pda(Rec1Twin)>>,
     <<Pda(Rec1), Pda(Rec2)>>, <<Pda(Rec1), Pda(Rec1Twin), Pda(Rec2)>>}

NextRecords ==
    \/ Initialize("Standard", ScheduleA)
    \/ \E r \in {Rec1, Rec1Twin, Rec2}, ra \in {SigU, SigE} : AddRecord(ra, r)
    \/ completed_investment_info(SigU)
    \/ \E r \in {Rec1, Rec1Twin} :
          revoked_investment_record(SigU, Batch, r.record_id, r.account_id)
    \/ \E data \in TwinDataLists :
          estimate_profit_share(<<Acc("e1")>>, data, Batch, TotalProfit, TotalInvest)
    \/ \E data \in TwinDataLists :
          estimate_refund_share(<<Acc("e1")>>, data, Batch, Year)

SpecRecords == Init /\ [][NextRecords]_vars

\* C17: no two stored records of one batch share a record_id, whatever
\* their account ids.
C17_RecordIdUnique ==
    \A p, q \in DOMAIN records :
        (records[p].batch_id = records[q].batch_id
            /\ records[p].record_id = records[q].record_id) => p = q

----------------------------------------------------------------------------
(* Properties of the whitelists and of initialization                       *)

\* list is old with exactly the one slot that held from now holding to
OneSlotReplaced(old, list, from, to) ==
    /\ Len(list) = Len(old)
    /\ \E i \in 1..Len(old) :
          /\ old[i] = from /\ list[i] = to
          /\ \A j \in 1..Len(old) : j # i => (list[j] = old[j] /\ old[j] # from)

\* every key that a patch names
PatchKeys == UNION {{p[1], p[2]} : p \in ExecPatches \cup UpdatePatches}

\* the patched list before and after the step
PatchedBefore == IF last'.op = "patch_execute_whitelist" THEN info.execute_whitelist ELSE info.update_whitelist
PatchedAfter == IF last'.op = "patch_execute_whitelist" THEN info'.execute_whitelist ELSE info'.update_whitelist

C19_ListSizes ==
    info.initialized =>
        /\ Len(info.execute_whitelist) = 5
        /\ Len(info.update_whitelist) = 5
        /\ Len(info.withdraw_whitelist) >= 1
        /\ Len(info.withdraw_whitelist) <= 5

\* C20: a successful initialize_investment_info acts on a configuration that
\* did not exist and leaves it Pending and active, with two lists of 5 and
\* a schedule that satisfies the schedule rules; a failed one, and every one
\* on an existing configuration, leaves the configuration as it was.
C20_InitializeOnce ==
    [][last'.op = "initialize_investment_info"
          => IF last'.err = "Ok"
             THEN /\ ~info.initialized /\ info'.initialized
                  /\ info'.state = "Pending" /\ info'.is_active
                  /\ Len(info'.execute_whitelist) = 5
                  /\ Len(info'.update_whitelist) = 5
                  /\ ScheduleRulesHold(info'.stage_ratio)
             ELSE info' = info]_vars

----------------------------------------------------------------------------
(* The estimates: one signer of either list, of the withdraw list only,    *)
(* unsigned or patched out, over every list of candidate records            *)

EstimateSigners ==
    {<<Acc("e1")>>, <<Acc("u1")>>, <<Acc("x1")>>, <<NoSig("e1")>>, <<Acc("e6")>>}

NextEstimate ==
    \/ Initialize("Standard", ScheduleA)
    \/ \E r \in {Rec1, Rec2} : AddRecord(SigU, r)
    \/ patch_execute_whitelist(SigE \o <<Acc("e1"), Acc("e6")>>)
    \/ completed_investment_info(SigU)
    \/ revoked_investment_record(SigU, Batch, Rec1.record_id, Rec1.account_id)
    \/ \E ra \in EstimateSigners, data \in DataLists \cup {<<>>, <<Pda(Rec2), Pda(Rec1)>>} :
          estimate_profit_share(ra, data, Batch, TotalProfit, TotalInvest)
    \/ \E ra \in EstimateSigners, data \in DataLists \cup {<<>>, <<Pda(Rec2), Pda(Rec1)>>},
          year_index \in {Year, Year + 1} :
          estimate_refund_share(ra, data, Batch, year_index)
    \/ Tick(T0 + 1)

SpecEstimate == Init /\ [][NextEstimate]_vars

\* the first account has signed with a key of one of the two lists
FirstSignerListed(ra) ==
    /\ Len(ra) >= 1 /\ ra[1].is_signer
    /\ ra[1].key \in Range(info.execute_whitelist) \cup Range(info.update_whitelist)

EstimateOps == {"estimate_profit_share", "estimate_refund_share"}

----------------------------------------------------------------------------
(* The arithmetic of the estimates: records whose amounts are small, at the *)
(* point where a product by 10000 or by a percentage leaves the word, and  *)
(* at the largest value, estimated against small and large totals          *)

\* the least amount whose product by 10000 leaves the word
SatPoint == MaxU64 \div 10000 + 1

\* the amount_usdt and amount_hcoin of the first record
AmountPairs ==
    {<<0, 0>>, <<7, 7>>, <<99, 100>>, <<SatPoint, MaxU64 \div 50 + 1>>, <<SatPoint, MaxU64>>}

MathRec1(p) == [Rec1 EXCEPT !.amount_usdt = p[1], !.amount_hcoin = p[2]]

Profits == {0, 50, 3000}
Invests == {1, 100, 2 * SatPoint}

\* every record account of the batch, in descending record_id
AllData == <<Pda(Rec2), Pda(Rec1)>>

NextMath ==
    \/ Initialize("Standard", ScheduleA)
    \/ \E p \in AmountPairs : AddRecord(SigU, MathRec1(p))
    \/ AddRecord(SigU, Rec2)
    \/ completed_investment_info(SigU)
    \/ revoked_investment_record(SigU, Batch, Rec2.record_id, Rec2.account_id)
    \/ \E total_profit_usdt \in Profits, total_invest_usdt \in Invests :
          estimate_profit_share(<<Acc("e1")>>, AllData, Batch,
                                total_profit_usdt, total_invest_usdt)
    \/ \E year_index \in {Year, Year + 1} :
          estimate_refund_share(<<Acc("e1")>>, AllData, Batch, year_index)
    \/ update_investment_info(SigU, Some(ScheduleLate), None)

SpecMath == Init /\ [][NextMath]_vars

\* the records of AllData that are stored and not revoked, in ascending
\* record_id
Live == SelectSeq(InRecordIdOrder(Range(AllData) \cap DOMAIN records), LAMBDA r : r.revoked_at = 0)

Open == info.initialized /\ info.is_active /\ info.state = "Completed"

Estimable == Open /\ Live # <<>>

ProfitResult(total_profit_usdt, total_invest_usdt) == estimate_profit_share_result(<<Acc("e1")>>, AllData, Batch, total_profit_usdt, total_invest_usdt)

\* the quotients as written, over the integers
PlainRatio(r, total_invest_usdt) == (r.amount_usdt * 10000) \div total_invest_usdt
PlainPayout(total_profit_usdt, ratio_bp) == (total_profit_usdt * ratio_bp) \div 10000

\* the quotients with a numerator that stops at the largest value of the word
Numerator(a, b) == IF a * b > MaxU64 THEN MaxU64 ELSE a * b
SatRatio(r, total_invest_usdt) == Numerator(r.amount_usdt, 10000) \div total_invest_usdt
SatPayout(total_profit_usdt, ratio_bp) == Numerator(total_profit_usdt, ratio_bp) \div 10000

\* C22 as stated: ratio_bp and payout of every entry are the plain quotients
\* floor(amount_usdt * 10000 / total_invest_usdt) and
\* floor(total_profit_usdt * ratio_bp / 10000), and the estimate fails with
\* BpRatioOverflow exactly when such a ratio is above 65535.
C22_PlainQuotients ==
    Estimable =>
        \A total_profit_usdt \in Profits, total_invest_usdt \in Invests :
            LET r == ProfitResult(total_profit_usdt, total_invest_usdt)
            IN  /\ r.err = "BpRatioOverflow"
                      <=> \E i \in 1..Len(Live) : PlainRatio(Live[i], total_invest_usdt) > 65535
                /\ r.err = "Ok" =>
                      /\ Len(r.entries) = Len(Live)
                      /\ \A i \in 1..Len(Live) :
                            /\ r.entries[i].ratio_or_stage = PlainRatio(Live[i], total_invest_usdt)
                            /\ r.entries[i].amount
                                  = PlainPayout(total_profit_usdt, r.entries[i].ratio_or_stage)

\* C22, amended: ratio_bp and payout of every entry are the quotients whose
\* numerator product saturates at the largest 64-bit value, equal to the
\* plain quotients whenever the products fit; the estimate fails with
\* BpRatioOverflow exactly when such a ratio is above 65535.
C22_SaturatingQuotients ==
    Estimable =>
        \A total_profit_usdt \in Profits, total_invest_usdt \in Invests :
            LET r == ProfitResult(total_profit_usdt, total_invest_usdt)
            IN  /\ r.err \in {"Ok", "BpRatioOverflow"}
                /\ r.err = "BpRatioOverflow"
                      <=> \E i \in 1..Len(Live) : SatRatio(Live[i], total_invest_usdt) > 65535
                /\ r.err = "Ok" =>
                      /\ Len(r.entries) = Len(Live)
                      /\ \A i \in 1..Len(Live) :
                            /\ r.entries[i].ratio_or_stage = SatRatio(Live[i], total_invest_usdt)
                            /\ r.entries[i].amount
                                  = SatPayout(total_profit_usdt, r.entries[i].ratio_or_stage)
                            /\ (Live[i].amount_usdt < SatPoint
                                   => r.entries[i].ratio_or_stage
                                         = PlainRatio(Live[i], total_invest_usdt))

\* an estimate has stored the entry of a record of 99 against a total of 100
\* and a profit of 50: 9900 basis points and a payout of 49
C22_Witness ==
    /\ last.op = "estimate_profit_share" /\ last.err = "Ok"
    /\ Batch \in DOMAIN profit_cache
    /\ Len(profit_cache[Batch].entries) = 2
    /\ profit_cache[Batch].entries[1].ratio_or_stage = 9900
    /\ profit_cache[Batch].entries[1].amount = 49
    /\ ProfitResult(50, 1).err = "BpRatioOverflow"


RefundResult(year_index) == estimate_refund_share_result(<<Acc("e1")>>, AllData, Batch, year_index)

\* floor(amount_hcoin * stage_ratio[stage - 1][year_index] / 100), over the
\* integers, with the schedule of the current configuration
PlainRefund(r, year_index) ==
    (r.amount_hcoin * info.stage_ratio[r.stage][year_index + 1]) \div 100

\* C23: a successful estimate_refund_share has one entry for every
\* non-revoked candidate record, of amount
\* floor(amount_hcoin * stage_ratio[stage - 1][year_index] / 100) with the
\* schedule stored in the configuration when the estimate runs, and a
\* subtotal that is the sum of the amounts; the cache it stores holds
\* these entries and this subtotal.
C23_RefundPayout ==
    /\ [](Open =>
            \A year_index \in {Year, Year + 1} :
                LET r == RefundResult(year_index)
                IN  r.err = "Ok" =>
                       /\ Len(r.entries) = Len(Live)
                       /\ \A i \in 1..Len(Live) :
                             /\ r.entries[i].account_id = Live[i].account_id
                             /\ r.entries[i].amount = PlainRefund(Live[i], year_index)
                       /\ r.subtotal = EntrySum(r.entries))
    /\ [][(last'.op = "estimate_refund_share" /\ last'.err = "Ok")
             => /\ Open
                /\ refund_cache'[<<Batch, last'.year>>].entries = RefundResult(last'.year).entries
                /\ refund_cache'[<<Batch, last'.year>>].subtotal = RefundResult(last'.year).subtotal]_vars

\* an estimate made after the schedule was replaced: the record of 100 at
\* stage 1 gets 20 percent, where the schedule of the initialization gave 50
C23_Witness ==
    /\ last.op = "estimate_refund_share" /\ last.err = "Ok"
    /\ info.stage_ratio = ScheduleLate
    /\ Len(refund_cache[RefundKey].entries) = 2
    /\ refund_cache[RefundKey].entries[1].amount = 20
    /\ refund_cache[RefundKey].subtotal = 20 + (7 * ScheduleLate[3][Year + 1]) \div 100
    /\ (100 * ScheduleA[1][Year + 1]) \div 100 = 50


\* the refund of a record with a numerator that saturates
SatRefund(r, year_index) ==
    Numerator(r.amount_hcoin, info.stage_ratio[r.stage][year_index + 1]) \div 100

\* the sums of the payouts of the live records, with saturated numerators
SatRefundSum(year_index) ==
    SumSeq([i \in 1..Len(Live) |-> SatRefund(Live[i], year_index)])

SatProfitSum(total_profit_usdt, total_invest_usdt) ==
    SumSeq([i \in 1..Len(Live) |->
               SatPayout(total_profit_usdt, SatRatio(Live[i], total_invest_usdt))])

\* C24: in both estimates a numerator product that leaves the word saturates
\* and does not fail the call; the call fails with an overflow error only
\* when the sum of the payouts, computed with saturated numerators, leaves
\* the word, and then no cache is written.
C24_OverflowRule ==
    /\ [](Open =>
            /\ \A year_index \in {Year, Year + 1} :
                  RefundResult(year_index).err = "NumericalOverflow"
                     => SatRefundSum(year_index) > MaxU64
            /\ \A total_profit_usdt \in Profits, total_invest_usdt \in Invests :
                  ProfitResult(total_profit_usdt, total_invest_usdt).err = "NumericalOverflow"
                     => SatProfitSum(total_profit_usdt, total_invest_usdt) > MaxU64)
    /\ [][(last'.op \in EstimateOps /\ last'.err = "NumericalOverflow")
             => (profit_cache' = profit_cache /\ refund_cache' = refund_cache)]_vars

----------------------------------------------------------------------------
(* Candidate lists: a record of another batch, and two records of one      *)
(* record_id, among the candidates of an estimate                          *)

\* the second record, added under the next batch
OtherBatchPda == RecordPda(Batch + 1, Rec2.record_id, Rec2.account_id)

BatchDataLists ==
    {<<Pda(Rec1)>>, <<OtherBatchPda>>, <<Pda(Rec1), OtherBatchPda>>,
     <<OtherBatchPda, Pda(Rec1)>>, <<Pda(Rec1), Pda(Rec1)>>,
     <<Pda(Rec1), Pda(Rec1Twin)>>, <<Pda(Rec1Twin)>>}

NextBatch ==
    \/ Initialize("Standard", ScheduleA)
    \/ \E r \in {Rec1, Rec1Twin} : AddRecord(SigU, r)
    \/ add_investment_record(SigU, Batch + 1, Rec2.record_id, Rec2.account_id,
                             Rec2.wallet, Rec2.amount_usdt, Rec2.amount_hcoin, Rec2.stage)
    \/ completed_investment_info(SigU)
    \/ \E data \in BatchDataLists, batch_id \in {Batch, Batch + 1} :
          estimate_profit_share(<<Acc("e1")>>, data, batch_id, TotalProfit, TotalInvest)
    \/ \E data \in BatchDataLists, batch_id \in {Batch, Batch + 1} :
          estimate_refund_share(<<Acc("u1")>>, data, batch_id, Year)

SpecBatch == Init /\ [][NextBatch]_vars

\* the positions of data whose account is a stored record of the batch
InBatch(data, batch_id) ==
    {i \in 1..Len(data) : data[i] \in DOMAIN records /\ records[data[i]].batch_id = batch_id}

\* two candidates of the batch have one record_id
HasDuplicate(data, batch_id) ==
    \E i, j \in InBatch(data, batch_id) :
        i # j /\ records[data[i]].record_id = records[data[j]].record_id

\* the accounts of the entries of a result
EntryAccounts(r) == {r.entries[i].account_id : i \in 1..Len(r.entries)}

\* what the rule of C25 gives for one result r of an estimate over data
FilterRule(r, data, batch_id) ==
    IF HasDuplicate(data, batch_id) THEN r.err = "DuplicateRecord"
    ELSE InBatch(data, batch_id) # {} =>
            /\ r.err = "Ok"
            /\ EntryAccounts(r) = {records[data[i]].account_id : i \in InBatch(data, batch_id)}

\* C25: a candidate record of another batch is left out and the estimate
\* succeeds over the candidates of the requested batch; two candidates of
\* one record_id make it fail with DuplicateRecord.
C25_BatchFilter ==
    Open =>
        \A data \in BatchDataLists, batch_id \in {Batch, Batch + 1} :
            /\ FilterRule(estimate_profit_share_result(<<Acc("e1")>>, data, batch_id,
                              TotalProfit, TotalInvest), data, batch_id)
            /\ FilterRule(estimate_refund_share_result(<<Acc("u1")>>, data, batch_id, Year),
                          data, batch_id)

----------------------------------------------------------------------------
(* Properties of the caches that the estimates write                        *)

\* every cache account that exists
Caches ==
    {profit_cache[k] : k \in DOMAIN profit_cache} \cup {refund_cache[k] : k \in DOMAIN refund_cache}

\* C26: no cache with zero entries is ever written: an estimate over no
\* candidate, or over candidates that are all revoked, fails.
C26_NoEmptyCache ==
    \A c \in Caches : Len(c.entries) >= 1


\* the cache that the estimate of the step has written
WrittenCache ==
    IF last'.op = "estimate_profit_share" THEN profit_cache'[last'.batch]
    ELSE refund_cache'[<<last'.batch, last'.year>>]

EstimateDataLists == DataLists \cup {<<>>, <<Pda(Rec2), Pda(Rec1)>>}

\* the stored records of a candidate list that are not revoked, in
\* ascending record_id
LiveOf(data) ==
    SelectSeq(InRecordIdOrder(Range(data) \cap DOMAIN records), LAMBDA r : r.revoked_at = 0)

\* cache c holds the result r and the gas estimate of its entries
Holds(c, r) ==
    /\ c.entries = r.entries
    /\ c.subtotal = r.subtotal
    /\ c.subtotal_estimate_sol = ESTIMATE_SOL_BASE + Len(r.entries) * ESTIMATE_SOL_PER_ENTRY

\* C28: the result of an estimate depends on its arguments, the ledger and
\* the set of candidate records, not on their order: two lists of the same
\* candidates give the same error, entries and subtotal, the entries in
\* ascending record_id; a successful estimate overwrites the cache with this
\* result, so that a re-estimate with the same arguments on the same ledger
\* changes nothing of an unexecuted cache but created_at.
C28_ReestimateDeterministic ==
    /\ [](\A d1 \in EstimateDataLists, d2 \in EstimateDataLists :
             Range(d1) = Range(d2) =>
                LET p1 == estimate_profit_share_result(<<Acc("u1")>>, d1, Batch, TotalProfit, TotalInvest)
                    p2 == estimate_profit_share_result(<<Acc("u1")>>, d2, Batch, TotalProfit, TotalInvest)
                    r1 == estimate_refund_share_result(<<Acc("u1")>>, d1, Batch, Year)
                    r2 == estimate_refund_share_result(<<Acc("u1")>>, d2, Batch, Year)
                IN  /\ p1 = p2 /\ r1 = r2
                    /\ p1.err = "Ok" =>
                          p1.entries = [i \in 1..Len(LiveOf(d1)) |->
                                           [p1.entries[i] EXCEPT !.account_id = LiveOf(d1)[i].account_id]]
                    /\ r1.err = "Ok" =>
                          r1.entries = [i \in 1..Len(LiveOf(d1)) |->
                                           [r1.entries[i] EXCEPT !.account_id = LiveOf(d1)[i].account_id]])
    /\ [][(last'.op \in EstimateOps /\ last'.err = "Ok")
             => /\ \E d \in EstimateDataLists :
                      IF last'.op = "estimate_profit_share"
                      THEN Holds(WrittenCache, estimate_profit_share_result(<<Acc("u1")>>, d,
                                                   last'.batch, TotalProfit, TotalInvest))
                      ELSE Holds(WrittenCache, estimate_refund_share_result(<<Acc("u1")>>, d,
                                                   last'.batch, last'.year))
                /\ UNCHANGED <<info, records>>
                /\ \A d \in EstimateDataLists :
                      (/\ last'.op = "estimate_profit_share"
                       /\ last'.batch \in DOMAIN profit_cache
                       /\ Holds(profit_cache[last'.batch],
                                estimate_profit_share_result(<<Acc("u1")>>, d, last'.batch, TotalProfit, TotalInvest))
                       /\ Holds(WrittenCache,
                                estimate_profit_share_result(<<Acc("u1")>>, d, last'.batch, TotalProfit, TotalInvest)))
                         => WrittenCache = [profit_cache[last'.batch] EXCEPT !.created_at = now',
                                                                             !.executed_at = 0]]_vars

\* the profit cache of the two records has been estimated again after the
\* clock moved: the entries of a then b, whatever the order of the candidates
C28_Witness ==
    /\ last.op = "estimate_profit_share" /\ last.err = "Ok"
    /\ now > T0
    /\ profit_cache[ProfitKey].created_at = now
    /\ Len(profit_cache[ProfitKey].entries) = 2
    /\ profit_cache[ProfitKey].entries[1].account_id = Rec1.account_id
    /\ profit_cache[ProfitKey].entries[2].account_id = Rec2.account_id
    /\ Holds(profit_cache[ProfitKey],
             estimate_profit_share_result(<<Acc("u1")>>, <<Pda(Rec2), Pda(Rec1)>>, Batch, TotalProfit, TotalInvest))

----------------------------------------------------------------------------
(* The executor and its preconditions: investments of both kinds, funded   *)
(* or not, deactivated or not, with recipients that may be absent          *)

NextExecute ==
    \/ \E investment_type \in {"Standard", "Csr"} : Initialize(investment_type, ScheduleA)
    \/ \E r \in {Rec1, Rec2} : AddRecord(SigU, r)
    \/ completed_investment_info(SigU)
    \/ deactivate_investment_info(SigU)
    \/ \E mint \in {"usdt", "hcoin"} :
          Unfunded /\ deposit_token_to_vault(mint, DepositTokens)
    \/ \E data \in DataLists :
          estimate_profit_share(<<Acc("e1")>>, data, Batch, TotalProfit, TotalInvest)
    \/ \E data \in DataLists :
          estimate_refund_share(<<Acc("u1")>>, data, Batch, Year)
    \/ \E present \in {Wallets, {"w1"}}, batch_id \in {Batch, Batch + 1} :
          execute_profit_share(SigE, present, {}, batch_id)
    \/ \E present \in {Wallets, {"w1"}}, year_index \in {Year, Year + 1} :
          execute_refund_share(SigE, present, {}, Batch, year_index)

SpecExecute == Init /\ [][NextExecute]_vars

ExecuteOps == {"execute_profit_share", "execute_refund_share"}

\* a precondition of the execute of cache key of caches does not hold
PreconditionViolated(caches, key, asset) ==
    \/ ~info.initialized \/ ~info.is_active \/ info.state # "Completed"
    \/ (asset = "usdt" /\ info.investment_type = "Csr")
    \/ key \notin DOMAIN caches
    \/ /\ key \in DOMAIN caches
       /\ \/ caches[key].subtotal = 0
          \/ vault[asset] < caches[key].subtotal
          \/ vault.lamports < caches[key].subtotal_estimate_sol

\* the wallet of some entry of the cache has no account among present
RecipientAbsent(caches, key, present) ==
    key \in DOMAIN caches /\ \E i \in 1..Len(caches[key].entries) : caches[key].entries[i].wallet \notin present

\* C29: an execute fails whenever the investment is inactive or not
\* Completed, the kind is Csr (profit), no cache exists for the batch and
\* year, the cache subtotal is 0, the vault holds less than the subtotal of
\* the token or less than the gas estimate of lamports, or the token account
\* of an entry's wallet is not supplied; a failed execute moves no token and
\* changes no cache, so executed_at stays as it was.
C29_ExecutePreconditions ==
    /\ [](\A present \in SUBSET Wallets :
             /\ \A batch_id \in {Batch, Batch + 1} :
                   (PreconditionViolated(profit_cache, batch_id, "usdt")
                      \/ RecipientAbsent(profit_cache, batch_id, present))
                   => execute_share_result(profit_cache, batch_id, "usdt", SigE, present, {}).err # "Ok"
             /\ \A year_index \in {Year, Year + 1} :
                   (PreconditionViolated(refund_cache, <<Batch, year_index>>, "hcoin")
                      \/ RecipientAbsent(refund_cache, <<Batch, year_index>>, present))
                   => execute_share_result(refund_cache, <<Batch, year_index>>, "hcoin", SigE, present, {}).err # "Ok")
    /\ [][(last'.op \in ExecuteOps /\ last'.err # "Ok")
             => UNCHANGED <<vault, ata, profit_cache, refund_cache>>]_vars
    /\ [][(last'.op = "execute_profit_share" /\ last'.err = "Ok")
             => ~PreconditionViolated(profit_cache, last'.batch, "usdt")]_vars
    /\ [][(last'.op = "execute_refund_share" /\ last'.err = "Ok")
             => ~PreconditionViolated(refund_cache, <<last'.batch, last'.year>>, "hcoin")]_vars

\* an execute of a funded cache of two entries has failed for the absent
\* account of the second wallet: the vault still holds the deposit, the
\* first wallet has received nothing and the cache is not executed
C29_Witness ==
    /\ last.op = "execute_profit_share" /\ last.err = "MissingAssociatedTokenAccount"
    /\ Len(profit_cache[ProfitKey].entries) = 2
    /\ profit_cache[ProfitKey].subtotal > 0
    /\ profit_cache[ProfitKey].executed_at = 0
    /\ vault.usdt = DepositTokens
    /\ ata["w1"].usdt = 0

----------------------------------------------------------------------------
(* Custody: the ways funds enter and leave the vault, with withdraw lists   *)
(* that are empty, patched, and recipients in and out of them              *)

\* the signer accounts of a withdrawal: of the execute list, of the update
\* list, one key of the execute list three times, one signature missing
WithdrawSigners ==
    {SigE, SigU, SigUnsigned, <<Acc("e1"), Acc("e1"), Acc("e1")>>}

NextWithdraw ==
    \/ \E w \in {<<>>, <<"x1">>} :
          initialize_investment_info("Standard", ScheduleA, EndAt, UpperLimit,
                                     ExecKeys, UpdateKeys, w)
    \/ AddRecord(SigU, Rec1)
    \/ completed_investment_info(SigU)
    \/ deactivate_investment_info(SigU)
    \/ \E w \in {"x1", "x2"} : patch_withdraw_whitelist(SigE \o <<Acc(w)>>)
    \/ SolUnfunded /\ deposit_sol_to_vault(DepositLamports)
    \/ \E mint \in {"usdt", "hcoin"} :
          Unfunded /\ deposit_token_to_vault(mint, DepositTokens)
    \/ estimate_profit_share(<<Acc("e1")>>, <<Pda(Rec1)>>, Batch, TotalProfit, TotalInvest)
    \/ execute_profit_share(SigE, Wallets, {}, Batch)
    \/ \E ra \in WithdrawSigners, recipient \in {"x1", "x2"} :
          withdraw_from_vault(ra, recipient)

SpecWithdraw == Init /\ [][NextWithdraw]_vars

\* the keys of the execute list that have signed among the first three
\* supplied accounts
ExecuteSigners(ra) ==
    {ra[i].key : i \in {j \in 1..Len(ra) : j <= 3 /\ ra[j].is_signer}}
        \cap Range(info.execute_whitelist)

\* some balance of the vault is lower after the step
VaultLoses ==
    \/ vault'.lamports < vault.lamports
    \/ vault'.usdt < vault.usdt
    \/ vault'.hcoin < vault.hcoin

\* the tokens that left the vault went to the token accounts of one key of
\* the withdraw list, and to no other account
PaidToListed ==
    \E x \in Range(info.withdraw_whitelist) :
        /\ ata'[x].usdt = ata[x].usdt + (vault.usdt - vault'.usdt)
        /\ ata'[x].hcoin = ata[x].hcoin + (vault.hcoin - vault'.hcoin)
        /\ \A h \in Holders \ {x} : ata'[h] = ata[h]

\* the tokens that left the vault went to the wallets of the entries of the
\* profit cache, and only the vault's USDT moved
PaidToEntries ==
    /\ ProfitKey \in DOMAIN profit_cache
    /\ \A h \in Holders :
          ata'[h] # ata[h] =>
             \E i \in 1..Len(profit_cache[ProfitKey].entries) :
                 profit_cache[ProfitKey].entries[i].wallet = h
    /\ vault'.hcoin = vault.hcoin /\ vault'.lamports = vault.lamports

\* C30: withdraw_from_vault succeeds only if the investment is active and
\* Completed, at least 3 signers are keys of execute_list, withdraw_list is
\* not empty and holds the recipient; a failed withdrawal changes no balance;
\* and a balance of the vault decreases only in a successful withdrawal to a
\* key of the withdraw list of that moment or in a successful execute that
\* pays wallets of the cache entries.
C30_WithdrawGuard ==
    /\ [](\A ra \in WithdrawSigners, recipient \in {"x1", "x2"} :
             withdraw_from_vault_check(ra, recipient) = "Ok" =>
                 /\ info.is_active /\ info.state = "Completed"
                 /\ Cardinality(ExecuteSigners(ra)) >= 3
                 /\ Len(info.withdraw_whitelist) > 0
                 /\ recipient \in Range(info.withdraw_whitelist))
    /\ [][(last'.op = "withdraw_from_vault" /\ last'.err # "Ok")
             => UNCHANGED <<vault, ata>>]_vars
    /\ [][VaultLoses =>
             /\ last'.err = "Ok"
             /\ \/ last'.op = "withdraw_from_vault" /\ PaidToListed
                \/ last'.op = "execute_profit_share" /\ PaidToEntries]_vars

----------------------------------------------------------------------------
(* Custody arithmetic: deposits of lamports and of tokens of three mints,   *)
(* withdrawals with the mint accounts the caller supplies                   *)

\* the deposit that brings the vault to 1_000_000 lamports
ExampleDeposit == 1000000 - RentExempt

\* the usdt_mint and hcoin_mint accounts of a withdrawal: the two mints of
\* the program, the two exchanged, and another mint in place of USDT
MintAccounts == {<<"usdt", "hcoin">>, <<"hcoin", "usdt">>, <<"other", "hcoin">>}

NextCustody ==
    \/ Initialize("Standard", ScheduleA)
    \/ AddRecord(SigU, Rec1)
    \/ completed_investment_info(SigU)
    \/ deactivate_investment_info(SigU)
    \/ estimate_profit_share(<<Acc("e1")>>, <<Pda(Rec1)>>, Batch, TotalProfit, TotalInvest)
    \/ \E amount \in {ESTIMATE_SOL_BASE, ExampleDeposit} :
          SolUnfunded /\ deposit_sol_to_vault(amount)
    \/ \E mint \in {"usdt", "hcoin"} :
          CanDepositToken(mint) /\ deposit_token_to_vault(mint, DepositTokens)
    \/ deposit_token_to_vault("other", DepositTokens)
    \/ \E ra \in {SigE, SigU}, recipient \in {"x1", "x2"}, m \in MintAccounts :
          withdraw_from_vault_accounts(ra, recipient, m[1], m[2])

SpecCustody == Init /\ [][NextCustody]_vars

Least(a, b) == IF a < b THEN a ELSE b

WithdrawOk == last'.op = "withdraw_from_vault" /\ last'.err = "Ok"

\* the native amount of the withdrawal rule, written without the chain
Withdrawable ==
    IF vault.lamports > RentExempt + ESTIMATE_SOL_BASE + ESTIMATE_SOL_PER_ENTRY
    THEN vault.lamports - RentExempt - ESTIMATE_SOL_BASE - ESTIMATE_SOL_PER_ENTRY
    ELSE 0

\* C31: a successful withdraw_from_vault moves the vault's whole USDT and
\* H2COIN balances to one recipient and the native amount
\* max(0, balance - rent floor - ESTIMATE_SOL_BASE - ESTIMATE_SOL_PER_ENTRY);
\* afterwards both token balances of the vault are 0 and its native balance
\* is min(balance before, rent floor + 105_000), not below the rent floor.
C31_WithdrawAmounts ==
    [][WithdrawOk =>
          /\ vault'.usdt = 0 /\ vault'.hcoin = 0
          /\ \E x \in Holders :
                /\ ata'[x].usdt = ata[x].usdt + vault.usdt
                /\ ata'[x].hcoin = ata[x].hcoin + vault.hcoin
                /\ \A h \in Holders \ {x} : ata'[h] = ata[h]
          /\ vault'.lamports = vault.lamports - Withdrawable
          /\ vault'.lamports = Least(vault.lamports, RentExempt + ESTIMATE_SOL_BASE + ESTIMATE_SOL_PER_ENTRY)
          /\ vault'.lamports >= RentExempt]_vars


\* the vault holds the 1_000_000 lamports of the example
ExampleBalance == vault.lamports = 1000000

\* C32, as stated: with a native balance of 1_000_000, a rent floor of
\* 890_880, ESTIMATE_SOL_BASE 100_000 and ESTIMATE_SOL_PER_ENTRY 5_000 the
\* chain of saturating subtractions gives 0 and no lamports are moved.
C32_ExampleZero ==
    /\ [](ExampleBalance => withdraw_lamports = 0)
    /\ [][(ExampleBalance /\ WithdrawOk) => vault'.lamports = vault.lamports]_vars

\* C32, amended: with these figures the chain gives 4_120, which a
\* successful withdrawal moves, leaving 995_880 lamports in the vault.
C32_ExampleRemainder ==
    /\ [](ExampleBalance => withdraw_lamports = 4120)
    /\ [][(ExampleBalance /\ WithdrawOk) => vault'.lamports = 995880]_vars

\* a withdrawal from the balance of the example has succeeded: no other
\* balance of the vault leaves this remainder
C32_Witness ==
    /\ last.op = "withdraw_from_vault" /\ last.err = "Ok"
    /\ vault.lamports = 1000000 - 4120


\* the rest of the program state, which a deposit is not to touch
DepositFrame == UNCHANGED <<info, records, profit_cache, refund_cache, ata>>

\* C33: the deposits ask for no signer of a list: they succeed exactly when
\* the investment is active and Completed (and, for a token, the mint is
\* USDT or H2COIN), adding exactly the amount to exactly the targeted
\* balance of the vault and changing no configuration, record or cache; on a
\* Pending or deactivated investment they fail and change nothing.
C33_OpenDeposits ==
    /\ [](deposit_check = "Ok" <=> (info.initialized /\ info.is_active /\ info.state = "Completed"))
    /\ [][last'.op = "deposit_sol_to_vault" =>
             IF Open
             THEN /\ last'.err = "Ok"
                  /\ \E amount \in {ESTIMATE_SOL_BASE, ExampleDeposit} :
                        vault' = [vault EXCEPT !.lamports = vault.lamports + amount]
                  /\ DepositFrame
             ELSE last'.err # "Ok" /\ UNCHANGED vault /\ DepositFrame]_vars
    /\ [][last'.op = "deposit_token_to_vault" =>
             IF Open
             THEN \/ /\ last'.err = "Ok"
                     /\ \E mint \in {"usdt", "hcoin"} :
                           vault' = [vault EXCEPT ![mint] = vault[mint] + DepositTokens]
                     /\ DepositFrame
                  \/ last'.err = "InvalidTokenMint" /\ UNCHANGED vault /\ DepositFrame
             ELSE last'.err # "Ok" /\ UNCHANGED vault /\ DepositFrame]_vars

\* lamports have been deposited into the vault of an investment that has a
\* record and a cache
C33_Witness ==
    /\ last.op = "deposit_sol_to_vault" /\ last.err = "Ok"
    /\ vault.lamports = RentExempt + ESTIMATE_SOL_BASE
    /\ ProfitKey \in DOMAIN profit_cache
    /\ Len(Live) > 0

----------------------------------------------------------------------------
(* Rebinding of wallets: three records of two accounts, one of them         *)
(* revocable, candidate sets of every kind                                  *)

RebindCandidates == SUBSET {Pda(Rec1), Pda(Rec2), Pda(Rec1Twin)}

RebindAccounts == {Rec1.account_id, Rec2.account_id, "c"}

NextRebind ==
    \/ Initialize("Standard", ScheduleA)
    \/ \E r \in {Rec1, Rec2, Rec1Twin} : AddRecord(SigU, r)
    \/ revoked_investment_record(SigU, Batch, Rec2.record_id, Rec2.account_id)
    \/ deactivate_investment_info(SigU)
    \/ completed_investment_info(SigU)
    \/ \E candidates \in RebindCandidates, account_id \in RebindAccounts,
          recipient \in Wallets :
          update_investment_record_wallets(SigU, candidates, account_id, recipient)
    \/ update_investment_record_wallets(SigE, {Pda(Rec1)}, Rec1.account_id, "w2")

SpecRebind == Init /\ [][NextRebind]_vars

\* the stored candidates of the account that do not hold the wallet yet
Rebound(candidates, account_id, recipient) ==
    {p \in DOMAIN records :
        /\ p \in candidates
        /\ records[p].account_id = account_id
        /\ records[p].wallet # recipient}

----------------------------------------------------------------------------
(* Intake of records: stages inside and outside the schedule, amounts that  *)
(* reach the upper limit of the investment                                  *)

\* a record of stage 0, one of the stage after the last, and one whose
\* amount is the whole upper limit
RecStageZero == [Rec2 EXCEPT !.record_id = 3, !.stage = 0]
RecStageAfter == [Rec2 EXCEPT !.record_id = 4, !.stage = MAX_STAGE + 1]
RecLimit == [Rec1 EXCEPT !.record_id = 5, !.amount_usdt = UpperLimit]

IntakeRecords == {Rec1, Rec2, RecStageZero, RecStageAfter, RecLimit}

NextIntake ==
    \/ Initialize("Standard", ScheduleA)
    \/ \E r \in IntakeRecords, ra \in {SigU, SigE} : AddRecord(ra, r)
    \/ completed_investment_info(SigU)
    \/ \E r \in {Rec1, RecStageZero, RecStageAfter} :
          estimate_refund_share(<<Acc("e1")>>, <<Pda(r)>>, Batch, Year)

SpecIntake == Init /\ [][NextIntake]_vars

\* C35: every stored record has a stage in 1..3; add_investment_record with
\* another stage fails and stores nothing.
C35_StageInRange ==
    \A p \in DOMAIN records : records[p].stage \in 1..MAX_STAGE

\* the sum of amount_usdt over the stored records
InvestedUsdt ==
    LET RECURSIVE Sum(_)
        Sum(ps) == IF ps = {} THEN 0
                   ELSE LET p == CHOOSE x \in ps : TRUE
                        IN  records[p].amount_usdt + Sum(ps \ {p})
    IN  Sum(DOMAIN records)

\* C36: the sum of amount_usdt over the records of the investment never
\* exceeds investment_upper_limit.
C36_UpperLimitHolds ==
    info.initialized => InvestedUsdt <= info.investment_upper_limit

----------------------------------------------------------------------------
(* The cache as a snapshot: records revoked and rebound and the schedule    *)
(* replaced between an estimate and its execute                            *)

NextSnapshot ==
    \/ Initialize("Standard", ScheduleA)
    \/ \E r \in {Rec1, Rec2} : AddRecord(SigU, r)
    \/ completed_investment_info(SigU)
    \/ \E mint \in {"usdt", "hcoin"} :
          Unfunded /\ deposit_token_to_vault(mint, DepositTokens)
    \/ estimate_profit_share(<<Acc("e1")>>, AllData, Batch, TotalProfit, TotalInvest)
    \/ estimate_refund_share(<<Acc("e1")>>, AllData, Batch, Year)
    \/ revoked_investment_record(SigU, Batch, Rec1.record_id, Rec1.account_id)
    \/ update_investment_record_wallets(SigU, {Pda(Rec1)}, Rec1.account_id, "w2")
    \/ update_investment_info(SigU, Some(ScheduleLate), None)
    \/ execute_profit_share(SigE, Wallets, {}, Batch)
    \/ execute_refund_share(SigE, Wallets, {}, Batch, Year)

SpecSnapshot == Init /\ [][NextSnapshot]_vars

\* the amounts of the entries of a cache that name the wallet
EntriesOf(cache, w) ==
    SumSeq([i \in 1..Len(cache.entries) |->
               IF cache.entries[i].wallet = w THEN cache.entries[i].amount ELSE 0])

\* the step has paid, in the asset, every wallet the amounts the cache held
\* for it before the step, out of the vault
PaysSnapshot(cache, asset) ==
    /\ \A w \in Holders : ata'[w][asset] = ata[w][asset] + EntriesOf(cache, w)
    /\ vault'[asset] = vault[asset] - cache.subtotal
    /\ cache.subtotal = EntrySum(cache.entries)

\* C37: a cache is a snapshot: revoking a record, rebinding its wallet and
\* updating the configuration change no cache, and an execute pays exactly
\* the wallets and amounts of the cache entries, those of records revoked or
\* rebound since the estimate included.
C37_CacheIsSnapshot ==
    /\ [][last'.op \in {"revoked_investment_record", "update_investment_record_wallets",
                        "update_investment_info"}
             => UNCHANGED <<profit_cache, refund_cache>>]_vars
    /\ [][(last'.op = "execute_profit_share" /\ last'.err = "Ok")
             => PaysSnapshot(profit_cache[ProfitKey], "usdt")]_vars
    /\ [][(last'.op = "execute_refund_share" /\ last'.err = "Ok")
             => PaysSnapshot(refund_cache[RefundKey], "hcoin")]_vars

\* the record of account a was revoked and rebound to w2 after the estimate,
\* and the execute has paid its entry to w1, the wallet of the snapshot
C37_Witness ==
    /\ last.op = "execute_profit_share" /\ last.err = "Ok"
    /\ records[Pda(Rec1)].revoked_at # 0
    /\ records[Pda(Rec1)].wallet = "w2"
    /\ \E i \in 1..Len(profit_cache[ProfitKey].entries) :
          /\ profit_cache[ProfitKey].entries[i].account_id = Rec1.account_id
          /\ profit_cache[ProfitKey].entries[i].wallet = "w1"
          /\ profit_cache[ProfitKey].entries[i].amount > 0
          /\ ata["w1"].usdt = profit_cache[ProfitKey].entries[i].amount
    /\ ata["w2"].usdt = 0
    /\ info.stage_ratio = ScheduleLate

----------------------------------------------------------------------------
(* Refunds over the years: one record, its refunds of two years estimated   *)
(* and executed again and again, the schedule replaced in between           *)

NextRefunds ==
    \/ Initialize("Standard", ScheduleA)
    \/ AddRecord(SigU, Rec1)
    \/ completed_investment_info(SigU)
    \/ TokenSupply("hcoin") <= DepositTokens /\ deposit_token_to_vault("hcoin", DepositTokens)
    \/ \E year_index \in {Year, Year + 1} :
          estimate_refund_share(<<Acc("e1")>>, <<Pda(Rec1)>>, Batch, year_index)
    \/ \E year_index \in {Year, Year + 1} :
          execute_refund_share(SigE, Wallets, {}, Batch, year_index)
    \/ update_investment_info(SigU, Some(ScheduleLate), None)
    \/ Tick(T0 + SECONDS_PER_YEAR)

SpecRefunds == Init /\ [][NextRefunds]_vars

\* C38: the H2COIN paid by execute_refund_share for one record, over all
\* years and all executions, never exceeds the record's amount_hcoin.  The
\* record's wallet receives H2COIN from these refunds only.
C38_RefundWithinAmount ==
    ata[Rec1.wallet].hcoin <= Rec1.amount_hcoin

----------------------------------------------------------------------------
(* The arguments of the profit estimate: a total investment of zero, one    *)
(* below the amounts of the records, and the sum of the amounts             *)

InvestArguments == {0, TotalInvest \div 2, TotalInvest}

NextProfit ==
    \/ Initialize("Standard", ScheduleA)
    \/ \E r \in {Rec1, Rec2} : AddRecord(SigU, r)
    \/ completed_investment_info(SigU)
    \/ \E r \in {Rec1, Rec2} :
          revoked_investment_record(SigU, Batch, r.record_id, r.account_id)
    \/ \E data \in DataLists, total_invest_usdt \in InvestArguments :
          estimate_profit_share(<<Acc("e1")>>, data, Batch, TotalProfit, total_invest_usdt)
    \/ Tick(T0 + 1)

SpecProfit == Init /\ [][NextProfit]_vars

\* C39: the subtotal a successful estimate_profit_share writes is at most
\* total_profit_usdt, the profit to distribute for the batch.
C39_SubtotalWithinProfit ==
    [][(last'.op = "estimate_profit_share" /\ last'.err = "Ok")
          => profit_cache'[ProfitKey].subtotal <= TotalProfit]_vars

\* the stored candidates of a list that are not revoked
LiveIn(data) ==
    {p \in Range(data) \cap DOMAIN records : records[p].revoked_at = 0}

\* C40: estimate_profit_share with total_invest_usdt = 0 and a candidate
\* that is not revoked fails and leaves the caches as they were; no cache is
\* written from a division by zero.
C40_ZeroInvestFails ==
    /\ [](\A data \in DataLists :
             (Open /\ LiveIn(data) # {}) =>
                 estimate_profit_share_result(<<Acc("e1")>>, data, Batch, TotalProfit, 0).err # "Ok")
    /\ [][\A data \in DataLists :
             (LiveIn(data) # {}
                 /\ estimate_profit_share(<<Acc("e1")>>, data, Batch, TotalProfit, 0))
             => (last'.err # "Ok" /\ UNCHANGED <<profit_cache, refund_cache>>)]_vars

\* the estimate with a zero total has aborted on the one candidate left, the
\* other being revoked, and the cache of an earlier estimate is still there
C40_Witness ==
    /\ last.op = "estimate_profit_share" /\ last.err = "Panic"
    /\ ProfitKey \in DOMAIN profit_cache
    /\ profit_cache[ProfitKey].subtotal > 0
    /\ profit_cache[ProfitKey].created_at < now
    /\ Pda(Rec1) \in DOMAIN records /\ Pda(Rec2) \in DOMAIN records
    /\ records[Pda(Rec1)].revoked_at # 0
    /\ records[Pda(Rec2)].revoked_at = 0

=============================================================================
